---- MODULE Spec2Model ----
(***************************************************************************)
(* State-machine model of the WRF post-processing pipeline of              *)
(* src/preprocess.py: read_wrfout, compute_additional_variables_inplace,   *)
(* _to_levs (to_hlevs / to_plevs) and main.                                *)
(*                                                                         *)
(* A dataset is a record                                                   *)
(*   dims   : variable name -> tuple of dimension names                    *)
(*   data   : variable name -> array                                       *)
(*   coords : the names that are coordinates                               *)
(*   attrs  : dataset-level attributes                                     *)
(* The horizontal grid is one cell, so a column is a time step: an array   *)
(* with dims (Time, y, x) is a tuple over the time steps, one with dims    *)
(* (Time, z, y, x) a tuple over the time steps of tuples over the levels.  *)
(* Field values are integers (fixed point); regridded values are exact     *)
(* rationals <<num, den>>, and <<0, 0>> is the missing value (NaN).        *)
(***************************************************************************)
EXTENDS Integers, Sequences, FiniteSets, TLC

VARIABLES disk, args, pc, levs, ds, ds_p, dirs, store, log, exit, other, evaluated,
          quantified, viewer

vars ==
    <<disk, args, pc, levs, ds, ds_p, dirs, store, log, exit, other, evaluated, quantified,
      viewer>>

(* ------------------------------ bounds -------------------------------- *)

\* number of native vertical levels of the input files
NLev == 3
\* number of input files (one time step each)
NTime == 2

(* ---------------------------- arithmetic ------------------------------ *)

Abs(n) == IF n < 0 THEN -n ELSE n

RECURSIVE GCD(_, _)
GCD(a, b) == IF b = 0 THEN a ELSE GCD(b, a % b)

\* the rational n/d (d > 0) in lowest terms
Rat(n, d) == LET g == GCD(Abs(n), d) IN <<n \div g, d \div g>>

FromInt(n) == <<n, 1>>

NaN == <<0, 0>>

IsNaN(r) == r[2] = 0

Elems(s) == {s[i] : i \in 1..Len(s)}

Reverse(s) == [i \in 1..Len(s) |-> s[Len(s) + 1 - i]]

SeqMax(s) == CHOOSE m \in Elems(s) : \A e \in Elems(s) : e <= m

SeqMin(s) == CHOOSE m \in Elems(s) : \A e \in Elems(s) : m <= e

(* ------------------------- numpy / xgcm kernels ----------------------- *)

\* np.arange(start, stop, step) on integers, step > 0
NpArange(start, stop, step) ==
    LET n == IF stop > start THEN (stop - start + step - 1) \div step ELSE 0
    IN  [i \in 1..n |-> start + (i - 1) * step]

\* A Python number of the level expression: hi * 2^53 + half / 2, an int or a
\* float (float64).  The floats are the multiples of 1/2 below 2^52, which
\* float64 holds exactly, and the values from 2^53 on, where float64 holds the
\* even integers only.
IntLit(n) == [float |-> FALSE, hi |-> 0, half |-> 2 * n]

FloatLit(hi, half) == [float |-> TRUE, hi |-> hi, half |-> half]

\* the float64 nearest to hi * 2^53 + half / 2, ties to the even mantissa
Float64(hi, half) ==
    IF hi = 0 THEN FloatLit(0, half)
    ELSE LET q == half \div 4
             r == half % 4
             up == r > 2 \/ (r = 2 /\ q % 2 = 1)
         IN  FloatLit(hi, IF up THEN 4 * (q + 1) ELSE 4 * q)

\* the length np.arange computes, ceil((stop - start) / step), for step > 0;
\* -1 when the difference is of the order of 2^53 and the array beyond any
\* memory
ArangeLength(start, stop, step) ==
    IF stop.hi < start.hi THEN 0
    ELSE IF stop.hi > start.hi THEN -1
    ELSE IF stop.half <= start.half THEN 0
    ELSE (stop.half - start.half + step.half - 1) \div step.half

\* np.arange(start, stop, step) with a float among the arguments: the first
\* two elements are start and start + step, and element i is
\* start + i * delta with delta = (start + step) - start, each sum rounded
NpArangeFloat(start, stop, step) ==
    LET n == ArangeLength(start, stop, step)
        next == Float64(start.hi, start.half + step.half)
        delta == next.half - start.half
    IN  [i \in 1..n |-> Float64(start.hi, start.half + (i - 1) * delta)]

\* np.interp with the lower node's value in place of the linear formula
NpInterpStep(x, xp, fp) ==
    LET n == Len(xp)
    IN  IF x < xp[1] THEN FromInt(fp[1])
        ELSE IF x >= xp[n] THEN FromInt(fp[n])
        ELSE LET j == CHOOSE k \in 1..(n - 1) : xp[k] <= x /\ x < xp[k + 1]
             IN  FromInt(fp[j])

\* np.interp(x, xp, fp) for one x, xp increasing: below xp[0] the first
\* value, at or above xp[-1] the last, at a node the node's value, and
\* otherwise slope * (x - xp[j]) + fp[j] on the interval xp[j] <= x < xp[j+1]
NpInterp(x, xp, fp) ==
    LET n == Len(xp)
    IN  IF x < xp[1] THEN FromInt(fp[1])
        ELSE IF x >= xp[n] THEN FromInt(fp[n])
        ELSE LET j == CHOOSE k \in 1..(n - 1) : xp[k] <= x /\ x < xp[k + 1]
                 dx == xp[j + 1] - xp[j]
             IN  IF x = xp[j] THEN FromInt(fp[j])
                 ELSE Rat(fp[j] * dx + (fp[j + 1] - fp[j]) * (x - xp[j]), dx)

\* interp_1d_linear masking the edge levels themselves too
Interp1dLinearEdgesMasked(phi, theta, target, mask_edges) ==
    LET flip == theta[1] > theta[Len(theta)]
        th == IF flip THEN Reverse(theta) ELSE theta
        ph == IF flip THEN Reverse(phi) ELSE phi
        lo == SeqMin(theta)
        hi == SeqMax(theta)
    IN  [i \in 1..Len(target) |->
            IF mask_edges /\ (target[i] <= lo \/ target[i] >= hi)
            THEN NaN
            ELSE NpInterp(target[i], th, ph)]

\* xgcm.transform.interp_1d_linear on one column: phi against theta at the
\* target levels; a column that decreases along the axis is flipped first,
\* and with mask_edges the targets outside [min theta, max theta] are NaN
Interp1dLinear(phi, theta, target, mask_edges) ==
    LET flip == theta[1] > theta[Len(theta)]
        th == IF flip THEN Reverse(theta) ELSE theta
        ph == IF flip THEN Reverse(phi) ELSE phi
        lo == SeqMin(theta)
        hi == SeqMax(theta)
    IN  [i \in 1..Len(target) |->
            IF mask_edges /\ (target[i] < lo \/ target[i] > hi)
            THEN NaN
            ELSE NpInterp(target[i], th, ph)]

\* mask_edges switched off: np.interp's clamped values outside the range
MaskEdgesOff == FALSE

\* Grid.transform(da, "Z", levs, target_data=ds[lev_type], method="linear"):
\* mask_edges defaults to True
MaskEdges == TRUE

GridTransform(phi, theta, target) == Interp1dLinear(phi, theta, target, MaskEdges)

(* ----------------------------- metpy.calc ----------------------------- *)

\* floor of the square root
ISqrt(n) == CHOOSE k \in 0..n : k * k <= n /\ (k + 1) * (k + 1) > n

\* the sum of the components' magnitudes in place of the norm
WindSpeedSum(u, v) == Abs(u) + Abs(v)

\* mcalc.wind_speed(u, v) = sqrt(u*u + v*v)
WindSpeed(u, v) == ISqrt(u * u + v * v)

\* Angles are in hundredths of a degree.
Deg(d) == 100 * d

\* arctan(y / x) for x, y > 0, rounded to a hundredth of a degree, on the
\* slopes the wind components of the inputs have
AtanQ1(y, x) ==
    CASE 4 * y = 3 * x -> 3687
      [] 3 * y = 4 * x -> 5313

\* np.arctan2(y, x) in (-180, 180]; the arguments are negated floats, so a
\* zero y is -0.0 and arctan2(-0.0, x < 0) is -180, arctan2(-0.0, -0.0) -180
Arctan2(y, x) ==
    CASE y = 0 /\ x > 0 -> 0
      [] y = 0 /\ x <= 0 -> -Deg(180)
      [] y > 0 /\ x = 0 -> Deg(90)
      [] y < 0 /\ x = 0 -> -Deg(90)
      [] y > 0 /\ x > 0 -> AtanQ1(y, x)
      [] y > 0 /\ x < 0 -> Deg(180) - AtanQ1(y, -x)
      [] y < 0 /\ x > 0 -> -AtanQ1(-y, x)
      [] y < 0 /\ x < 0 -> AtanQ1(-y, -x) - Deg(180)

\* mcalc.wind_direction(u, v), convention "from": 90 deg - arctan2(-v, -u),
\* +360 where that is <= 0, and 0 for calm wind
MetpyWindDirection(u, v) ==
    LET wdir == Deg(90) - Arctan2(-v, -u)
        wrapped == IF wdir <= 0 THEN wdir + Deg(360) ELSE wdir
    IN  IF u = 0 /\ v = 0 THEN 0 ELSE wrapped

\* wdir.where(wdir >= 0, wdir + Quantity(360, "deg"))
WhereNonNegative(wdir) == IF wdir >= 0 THEN wdir ELSE wdir + Deg(360)

WindDirection(u, v) == WhereNonNegative(MetpyWindDirection(u, v))

\* (p / 1000 hPa) ^ (2/7) in thousandths, p in hPa
ExnerPermille(p) ==
    CASE p = 1000 -> 1000
      [] p = 900 -> 970
      [] p = 800 -> 938
      [] p = 700 -> 903
      [] p = 500 -> 820

\* mcalc.temperature_from_potential_temperature(p, theta), in K
TemperatureFromPotentialTemperature(p, theta) ==
    (theta * ExnerPermille(p)) \div 1000

\* saturation vapour pressure over water in Pa at T in K
SaturationVapourPressure(T) ==
    CASE T = 300 -> 3535
      [] T = 291 -> 2064
      [] T = 281 -> 1072
      [] T = 270 -> 485
      [] T = 246 -> 66

\* mcalc.relative_humidity_from_specific_humidity(p, T, q) in percent: the
\* mixing ratio w = q / (1 - q) over the saturation mixing ratio
\* 0.622 es / (p - es); p in hPa, q in g/kg
RelativeHumidityFromSpecificHumidity(p, T, q) ==
    LET es == SaturationVapourPressure(T)
        w == (1000 * q) \div (1000 - q)
    IN  (100 * w * (100 * p - es)) \div (622 * es)

(* ------------------------------ datasets ------------------------------ *)

D2 == <<"Time", "y", "x">>

D3 == <<"Time", "z", "y", "x">>

DSoil == <<"Time", "soil_layers", "y", "x">>

\* a variable on the vertical cell faces
D3Stag == <<"Time", "z_stag", "y", "x">>

\* the six fields compute_additional_variables_inplace adds
DerivedNames ==
    {"wind_speed_10", "wind_speed", "wind_direction_10", "wind_direction", "Ta", "RH"}

NoDs == [dims |-> <<>>, data |-> <<>>, coords |-> {}, attrs |-> <<>>]

Levels == 1..NLev

Files == 1..NTime

\* dict.update
Update(f, g) == [k \in DOMAIN f \cup DOMAIN g |-> IF k \in DOMAIN g THEN g[k] ELSE f[k]]

\* the coordinates of ds that the DataArray of a variable with these dims carries
CoordsOf(d, dims) == {c \in d.coords : Elems(d.dims[c]) \subseteq Elems(dims)}

\* ds[name] = value: a new data variable, or the replacement of an old one
SetVar(d, name, dims, data) ==
    [d EXCEPT !.dims = [n \in DOMAIN d.dims \cup {name} |->
                            IF n = name THEN dims ELSE d.dims[n]],
              !.data = [n \in DOMAIN d.data \cup {name} |->
                            IF n = name THEN data ELSE d.data[n]]]

(* ------------------------------- inputs ------------------------------- *)

HeightVals == {50, 100, 500, 900, 1800}

PressVals == {1000, 900, 800, 700, 500}

PhiVals == {-3, 4}

WindVals == {-4, -3, 0, 3, 4}

\* wind vectors whose speed and direction the fixed-point kernels represent
WindPairs ==
    {w \in WindVals \X WindVals :
        \/ w[1] = 0
        \/ w[2] = 0
        \/ Abs(w[1]) # Abs(w[2])}

ZCols == {s \in [Levels -> HeightVals] : \A k \in 1..(NLev - 1) : s[k] < s[k + 1]}

PCols == {s \in [Levels -> PressVals] : \A k \in 1..(NLev - 1) : s[k] > s[k + 1]}

PhiCols == [Levels -> PhiVals]

BaseZ == CHOOSE s \in ZCols : \A k \in Levels : Cardinality({h \in HeightVals : h < s[k]}) = k - 1

BaseP == CHOOSE s \in PCols : \A k \in Levels : Cardinality({h \in PressVals : h > s[k]}) = k - 1

ZeroCol == [k \in Levels |-> 0]

\* the variables of one time step of a wrfout file as xwrf.postprocess()
\* presents them; W is still on the NLev + 1 cell faces
Slab(t, z, p, u, v, u10, v10) ==
    [T2 |-> 280 + t, U10 |-> u10, V10 |-> v10,
     U |-> u, V |-> v, wind_east |-> u,
     geopotential_height |-> z, air_pressure |-> p,
     air_potential_temperature |-> [k \in Levels |-> 300],
     QVAPOR |-> [k \in Levels |-> 5 + t],
     W |-> [k \in 1..(NLev + 1) |-> 2 * k + t],
     TSLB |-> 270 + t]

WrfDims ==
    [T2 |-> D2, U10 |-> D2, V10 |-> D2,
     U |-> D3, V |-> D3, wind_east |-> D3,
     geopotential_height |-> D3, air_pressure |-> D3,
     air_potential_temperature |-> D3, QVAPOR |-> D3,
     W |-> D3Stag,
     TSLB |-> DSoil,
     XLAT |-> <<"y", "x">>, Time |-> <<"Time">>, z |-> <<"z">>,
     wrf_projection |-> <<>>]

WrfCrs == [crs |-> "lcc", lat_0 |-> 25, lon_0 |-> 55]

WrfAttrs == [TITLE |-> "OUTPUT FROM WRF", DX |-> 3000]

\* the START_DATE global attribute of the files of one uninterrupted run
StartDate == "2022-07-20_00:00:00"

\* the START_DATE of the files a restarted run wrote
RestartDate == "2022-07-21_00:00:00"

\* the other time steps of every input: a fixed column
BaseSlab(t) ==
    Slab(t, BaseZ, BaseP, [k \in Levels |-> 3 * (k % 2)], [k \in Levels |-> 4 * (k % 2)], 3, 4)

\* the files of a case directory: one time step each, file f stamped 6 f hours
Input(first) ==
    [dir |-> <<"/run", "fatima">>,
     prefix |-> "wrfout_d01",
     dims |-> WrfDims,
     coords |-> {"XLAT", "Time", "z"},
     attrs |-> WrfAttrs,
     start_date |-> [f \in Files |-> StartDate],
     static |-> [XLAT |-> 35, z |-> [k \in Levels |-> k], wrf_projection |-> WrfCrs],
     time |-> [f \in Files |-> 6 * f],
     steps |-> [f \in Files |-> IF f = 1 THEN first ELSE BaseSlab(f)]]

\* inputs that vary the height column and one field's column
InputsHeight == {Input(Slab(1, z, BaseP, phi, ZeroCol, 0, 0)) : z \in ZCols, phi \in PhiCols}

\* inputs that vary the pressure column and one field's column
InputsPressure == {Input(Slab(1, BaseZ, p, phi, ZeroCol, 0, 0)) : p \in PCols, phi \in PhiCols}

\* inputs that vary the wind vector, at 10 m and at the lowest level (the
\* levels above hold the vector with its components swapped)
InputsWind ==
    {Input(Slab(1, BaseZ, BaseP,
                [k \in Levels |-> IF k = 1 THEN w[1] ELSE w[2]],
                [k \in Levels |-> IF k = 1 THEN w[2] ELSE w[1]],
                w[1], w[2])) : w \in WindPairs}

Inputs == InputsHeight \cup InputsPressure \cup InputsWind

\* an input whose T2 has the dims of wind_east, which no check of the
\* pipeline excludes
WithT2OnLevels(in) ==
    [in EXCEPT !.dims = [@ EXCEPT !["T2"] = D3],
               !.steps = [f \in Files |->
                             [in.steps[f] EXCEPT !["T2"] = [k \in Levels |-> @ + k]]]]

InputsAnyDims == InputsWind \cup {WithT2OnLevels(in) : in \in InputsWind}

BaseInput == Input(BaseSlab(1))

\* a run restarted before its last file: that file carries the restart's
\* START_DATE
InputsRestart == {[BaseInput EXCEPT !.start_date[NTime] = RestartDate]}

\* the fields compute_additional_variables_inplace reads
RequiredFields ==
    {"U10", "V10", "U", "V", "air_pressure", "air_potential_temperature", "QVAPOR"}

\* the variables _to_levs reads by name
RegridFields == {"T2", "wind_east", "geopotential_height", "wrf_projection"}

\* files that lack a variable
Without(in, f) == [in EXCEPT !.dims = [n \in DOMAIN in.dims \ {f} |-> in.dims[n]]]

InputsMissing == {Without(BaseInput, f) : f \in RequiredFields \cup RegridFields}

\* the files under another case directory or another prefix
InputsPaths ==
    {[BaseInput EXCEPT !.dir = <<"/run", c>>, !.prefix = fp] :
        c \in {"fatima", "fatima2"}, fp \in {"wrfout_d01", "wrfout_d02"}}

\* the tree ast.parse makes of a --levs string: the kind of its body, the kind
\* of the called function and its attribute name, and the positional arguments
Expr(body, func, attr, argnodes) ==
    [body |-> body, func |-> func, attr |-> attr, args |-> argnodes]

\* a positional argument: a number literal (Num), or a node of another kind
\* standing where the number n is written: -n (UnaryOp), "n" (Str), a name
ArgNode(node, n) == [node |-> node, n |-> n]

\* np.arange(start, stop, step) written with int literals
ArangeCall(t) ==
    Expr("Call", "Attribute", "arange", [i \in 1..3 |-> ArgNode("Num", IntLit(t[i]))])

\* --levs as the arguments of np.arange, and --interp_var
LevSpecs == {<<0, 2000, 100>>, <<50, 2000, 350>>, <<500, 1001, 100>>}

InterpVars == {"geopotential_height", "air_pressure"}

\* the command line of the example: every option but --levs and --interp_var
BaseArgs(e, iv) ==
    [wrf_run |-> "/run", case_name |-> "fatima", file_prefix |-> "wrfout_d01",
     proc_dir |-> "./data", levs |-> e, interp_var |-> iv, logfile |-> "./app.log"]

\* command lines that vary the levels and the reference field
ArgChoices == {BaseArgs(ArangeCall(t), iv) : t \in LevSpecs, iv \in InterpVars}

Lev100 == ArangeCall(<<0, 2000, 100>>)

\* command lines that vary the case name and the file prefix
ArgsPaths ==
    {[BaseArgs(Lev100, iv) EXCEPT !.case_name = c, !.file_prefix = fp] :
        iv \in InterpVars, c \in {"fatima", "fatima2"}, fp \in {"wrfout_d01", "wrfout_d02"}}

IntNums(t) == [i \in DOMAIN t |-> ArgNode("Num", IntLit(t[i]))]

\* --levs strings that are not np.arange(<number>, <number>, <number>):
\* "np.arange(0, 2000", "levels", "[0, 100] * 2", "arange(0, 2000, 100)",
\* "np.linspace(0, 2000, 100)", "np.arange(-100, 2000, 100)",
\* "np.arange(0, '2000', 100)", "np.arange(0, top, 100)",
\* "np.arange(0, 2000, True)", "np.arange(0, 2000)", "np.arange(0, 2000, 100, 1)",
\* "np.arange(0, 2000, step=100)", "np.arange()"
BadExprs ==
    {Expr("SyntaxError", "", "", <<>>),
     Expr("Name", "", "", <<>>),
     Expr("BinOp", "", "", <<>>),
     Expr("Call", "Name", "", IntNums(<<0, 2000, 100>>)),
     Expr("Call", "Attribute", "linspace", IntNums(<<0, 2000, 100>>)),
     Expr("Call", "Attribute", "arange", [IntNums(<<100, 2000, 100>>) EXCEPT ![1].node = "UnaryOp"]),
     Expr("Call", "Attribute", "arange", [IntNums(<<0, 2000, 100>>) EXCEPT ![2].node = "Str"]),
     Expr("Call", "Attribute", "arange", [IntNums(<<0, 2000, 100>>) EXCEPT ![2].node = "Name"]),
     Expr("Call", "Attribute", "arange", [IntNums(<<0, 2000, 1>>) EXCEPT ![3].node = "NameConstant"]),
     Expr("Call", "Attribute", "arange", IntNums(<<0, 2000>>)),
     Expr("Call", "Attribute", "arange", IntNums(<<0, 2000, 100, 1>>)),
     Expr("Call", "Attribute", "arange", <<>>)}

\* np.arange(0, 2000, 0): three numbers, and np.arange raises
ZeroStep == ArangeCall(<<0, 2000, 0>>)

\* command lines argparse or parse_arange_expr rejects
ArgsRejected ==
    {BaseArgs(e, iv) : e \in BadExprs \cup {ZeroStep}, iv \in InterpVars}
        \cup {BaseArgs(e, "eta") : e \in {Lev100, ZeroStep}}

(* ------------------------------ read_wrfout --------------------------- *)

Perms(S) == {p \in [1..Cardinality(S) -> S] : \A i, j \in 1..Cardinality(S) : i # j => p[i] # p[j]}

\* xr.open_mfdataset(paths, combine="nested", concat_dim="Time"): the files'
\* time steps in the order of paths
Concat(dk, paths) ==
    LET timed == {n \in DOMAIN dk.dims : "Time" \in Elems(dk.dims[n])} \ {"Time"}
    IN  [dims |-> dk.dims,
         data |-> [n \in DOMAIN dk.dims |->
                      IF n = "Time" THEN [i \in DOMAIN paths |-> dk.time[paths[i]]]
                      ELSE IF n \in timed THEN [i \in DOMAIN paths |-> dk.steps[paths[i]][n]]
                      ELSE dk.static[n]],
         coords |-> dk.coords,
         attrs |-> Update(dk.attrs, [START_DATE |-> dk.start_date[paths[1]]])]

\* the mean of the two faces of each cell
DestaggerColumn(col) == [k \in 1..(Len(col) - 1) |-> (col[k] + col[k + 1]) \div 2]

\* .xwrf.destagger(): every variable on z_stag moved to the cell centres z
Destagger(d) ==
    LET stag(n) == "z_stag" \in Elems(d.dims[n])
    IN  [d EXCEPT !.dims = [n \in DOMAIN d.dims |->
                              IF stag(n)
                              THEN [i \in DOMAIN d.dims[n] |->
                                       IF d.dims[n][i] = "z_stag" THEN "z" ELSE d.dims[n][i]]
                              ELSE d.dims[n]],
                  !.data = [n \in DOMAIN d.data |->
                              IF stag(n)
                              THEN [i \in DOMAIN d.data[n] |-> DestaggerColumn(d.data[n][i])]
                              ELSE d.data[n]]]

\* ds.sortby("Time"): every variable along Time reordered by ascending Time
SortByTime(d) ==
    LET n == Len(d.data["Time"])
        order == CHOOSE p \in Perms(1..n) :
                     \A i \in 1..(n - 1) : d.data["Time"][p[i]] <= d.data["Time"][p[i + 1]]
    IN  [d EXCEPT !.data = [v \in DOMAIN d.data |->
                              IF "Time" \in Elems(d.dims[v])
                              THEN [i \in 1..n |-> d.data[v][order[i]]]
                              ELSE d.data[v]]]

\* the files concatenated in the order given and left so
ReadWrfoutUnsorted(dk, paths) == Destagger(Concat(dk, paths))

ReadWrfout(dk, paths) == SortByTime(Destagger(Concat(dk, paths)))

(* ---------------- compute_additional_variables_inplace ---------------- *)

\* the assignments of the function, in its order
NSteps == 6

\* the third assignment stored under the name of one of its inputs
StepOutOverInput(i) ==
    CASE i = 1 -> "wind_speed_10"
      [] i = 2 -> "wind_speed"
      [] i = 3 -> "V10"
      [] i = 4 -> "wind_direction"
      [] i = 5 -> "Ta"
      [] i = 6 -> "RH"

\* RH assigned before Ta
StepOutRhBeforeTa(i) ==
    CASE i = 1 -> "wind_speed_10"
      [] i = 2 -> "wind_speed"
      [] i = 3 -> "wind_direction_10"
      [] i = 4 -> "wind_direction"
      [] i = 5 -> "RH"
      [] i = 6 -> "Ta"

StepOut(i) ==
    CASE i = 1 -> "wind_speed_10"
      [] i = 2 -> "wind_speed"
      [] i = 3 -> "wind_direction_10"
      [] i = 4 -> "wind_direction"
      [] i = 5 -> "Ta"
      [] i = 6 -> "RH"

\* the fields an assignment reads: ds[name] raises KeyError when one is absent
StepIns(i) ==
    CASE i = 1 -> <<"U10", "V10">>
      [] i = 2 -> <<"U", "V">>
      [] i = 3 -> <<"U10", "V10">>
      [] i = 4 -> <<"U", "V">>
      [] i = 5 -> <<"air_pressure", "air_potential_temperature">>
      [] i = 6 -> <<"air_pressure", "Ta", "QVAPOR">>

\* the value an assignment computes at one grid point from its inputs there
StepValue(i, x) ==
    CASE i \in {1, 2} -> WindSpeed(x[1], x[2])
      [] i \in {3, 4} -> WindDirection(x[1], x[2])
      [] i = 5 -> TemperatureFromPotentialTemperature(x[1], x[2])
      [] i = 6 -> RelativeHumidityFromSpecificHumidity(x[1], x[2], x[3])

\* the array an assignment stores: elementwise over the dims of its inputs
StepData(d, i) ==
    LET in == StepIns(i)
        first == d.data[in[1]]
    IN  IF "z" \in Elems(d.dims[in[1]])
        THEN [t \in DOMAIN first |-> [k \in DOMAIN first[t] |->
                 StepValue(i, [j \in DOMAIN in |-> d.data[in[j]][t][k]])]]
        ELSE [t \in DOMAIN first |->
                 StepValue(i, [j \in DOMAIN in |-> d.data[in[j]][t]])]

\* an assignment that reads an absent field left out, and the next ones made
RECURSIVE RunStepsSkipping(_, _)
RunStepsSkipping(d, i) ==
    IF i > NSteps THEN [ok |-> TRUE, ds |-> d]
    ELSE IF ~(Elems(StepIns(i)) \subseteq DOMAIN d.data) THEN RunStepsSkipping(d, i + 1)
    ELSE RunStepsSkipping(SetVar(d, StepOut(i), d.dims[StepIns(i)[1]], StepData(d, i)), i + 1)

\* the assignments from the i-th on: the first that reads an absent field
\* raises, and the fields assigned before it stay in the dataset
RECURSIVE RunSteps(_, _)
RunSteps(d, i) ==
    IF i > NSteps THEN [ok |-> TRUE, ds |-> d]
    ELSE IF ~(Elems(StepIns(i)) \subseteq DOMAIN d.data) THEN [ok |-> FALSE, ds |-> d]
    ELSE RunSteps(SetVar(d, StepOut(i), d.dims[StepIns(i)[1]], StepData(d, i)), i + 1)

\* a blocking evaluation of array data: the stage of the run and the object
\* whose task graph is computed
Evaluation(stage, object) == [stage |-> stage, of |-> object]

\* u10 = ds["U10"].compute() and the like, each written twice, once the
\* two wind speeds are stored
ComputeCalls(d) ==
    IF {"U10", "V10", "U", "V"} \subseteq DOMAIN d.dims
    THEN [i \in 1..8 |->
             Evaluation("compute",
                        <<"U10", "V10", "U10", "V10", "U", "V", "U", "V">>[i])]
    ELSE <<>>

ComputeAdditionalVariablesInplace(d) == RunSteps(d, 1)

\* the array type of a field: a plain array, or a pint Quantity around one
ArrayTypes == {"plain", "pint"}

\* .metpy.quantify()
Quantify(type) == "pint"

\* .metpy.dequantify()
Dequantify(type) == "plain"

\* the type of the result of an operation on two arrays: a Quantity among
\* the operands makes the result one
ResultType(a, b) == IF "pint" \in {a, b} THEN "pint" ELSE "plain"

\* the array type of what assignment i stores: mcalc.f(...quantify())
\* .dequantify(), and for the directions wdir.where(wdir >= 0, wdir +
\* Quantity(360, "deg")) after it
StepType(i) ==
    LET calc == Dequantify(Quantify("plain"))
    IN  IF i \in {3, 4} THEN ResultType(calc, ResultType(calc, "pint")) ELSE calc

\* the fields the function leaves in ds as Quantity arrays
ComputeQuantified(d) ==
    {StepOut(i) : i \in {j \in 1..NSteps :
                            /\ StepOut(j) \in DOMAIN ComputeAdditionalVariablesInplace(d).ds.dims
                            /\ StepType(j) = "pint"}}

(* ------------------------------- _to_levs ----------------------------- *)

\* only one 2-D variable kept (v2d_dict rebound in the loop, as in preproces.py)
Vars2dOnlyOne(d) == {"T2"}

\* only wind_east taken as 3-D
Vars3dOnlyOne(d) == {"wind_east"}

\* every variable along dims of T2 only taken as 2-D
Vars2dBySubset(d) ==
    {v \in DOMAIN d.dims : Elems(d.dims[v]) \subseteq Elems(d.dims["T2"])}

\* vars_2d: the variables (coordinates included) whose dims equal those of T2
Vars2d(d) == {v \in DOMAIN d.dims : d.dims[v] = d.dims["T2"]}

\* vars_3d: those whose dims equal those of wind_east
Vars3d(d) == {v \in DOMAIN d.dims : d.dims[v] = d.dims["wind_east"]}

NotZ(dim) == dim # "z"

\* the target dimension appended without dropping the native one
TransformedDimsKeepZ(dims, lev_type) == dims \o <<lev_type>>

\* the dims of a transformed variable: the "Z" axis dimension dropped and the
\* target dimension, named after target_data, appended
TransformedDims(dims, lev_type) == SelectSeq(dims, NotZ) \o <<lev_type>>

\* v3d_dict[v3d] = grid.transform(ds[v3d].metpy.dequantify(), "Z", levs,
\*                                target_data=ds[lev_type], method="linear")
Transformed(d, v, lv, lev_type) ==
    [dims |-> TransformedDims(d.dims[v], lev_type),
     data |-> [t \in DOMAIN d.data[v] |->
                  GridTransform(d.data[v][t], d.data[lev_type][t], lv)]]

\* v2d_dict[v2d] = ds[v2d].metpy.dequantify()
PassedThrough(d, v) == [dims |-> d.dims[v], data |-> d.data[v]]

\* the update the other way round: the transformed entry kept
EntryTransformedWins(d, v, lv, lev_type) ==
    IF v \in Vars3d(d) THEN Transformed(d, v, lv, lev_type) ELSE PassedThrough(d, v)

\* v3d_dict.update(v2d_dict): an entry of v2d_dict replaces the one of v3d_dict
Entry(d, v, lv, lev_type) ==
    IF v \in Vars2d(d) THEN PassedThrough(d, v) ELSE Transformed(d, v, lv, lev_type)

\* xr.Dataset(v3d_dict), then wrf_projection and the attributes.  The entries
\* bring the coordinates they carry; the target levels are an index
\* coordinate named lev_type on every transformed entry, and an index
\* coordinate takes the name from an entry of that name.
ToLevs(d, lv, lev_type) ==
    LET keys == Vars3d(d) \cup Vars2d(d)
        hasIndex == Vars3d(d) \ Vars2d(d) # {}
        index == IF hasIndex THEN {lev_type} ELSE {}
        carried == UNION {CoordsOf(d, Entry(d, v, lv, lev_type).dims) : v \in keys}
        names == keys \cup carried \cup index \cup {"wrf_projection"}
        var(n) == IF n = "wrf_projection" THEN PassedThrough(d, n)
                  ELSE IF n \in index THEN [dims |-> <<lev_type>>, data |-> lv]
                  ELSE IF n \in keys THEN Entry(d, n, lv, lev_type)
                  ELSE PassedThrough(d, n)
        vs == [n \in names |-> var(n)]
    IN  [dims |-> [n \in names |-> vs[n].dims],
         data |-> [n \in names |-> vs[n].data],
         coords |-> (carried \ keys) \cup index,
         attrs |-> d.attrs]

\* the entry taken as ds[v] is, without .metpy.dequantify()
EntryTypeKept(type) == type

\* the array type of an entry of v3d_dict or v2d_dict: both loops take
\* ds[v].metpy.dequantify()
EntryType(type) == Dequantify(type)

\* the 2-D and 3-D fields of the dataset _to_levs returns that are Quantity
\* arrays, q being those of ds
ToLevsQuantified(d, q) ==
    {n \in Vars3d(d) \cup Vars2d(d) :
        EntryType(IF n \in q THEN "pint" ELSE "plain") = "pint"}

(* --------------------------------- main ------------------------------- *)

\* what a call returns or raises
Returned(v) == [ok |-> TRUE, exc |-> "None", msg |-> "", value |-> v]

Raised(exc, msg) == [ok |-> FALSE, exc |-> exc, msg |-> msg, value |-> <<>>]

\* an argument that is a signed number passes as a number too
IsNumOrSigned(arg) == arg.node \in {"Num", "UnaryOp"}

\* isinstance(arg, ast.Num): a Constant holding an int or a float
IsNum(arg) == arg.node = "Num"

\* np.arange(*args) on three numbers: int64 when all are ints, else float64
NpArangeArgs(nums) ==
    LET start == nums[1]
        stop == nums[2]
        step == nums[3]
    IN  IF step.half = 0 THEN Raised("ZeroDivisionError", "division by zero")
        ELSE IF ArangeLength(start, stop, step) < 0
        THEN Raised("ValueError", "Maximum allowed size exceeded")
        ELSE IF start.float \/ stop.float \/ step.float
        THEN Returned(NpArangeFloat(start, stop, step))
        ELSE Returned(NpArange(start.half \div 2, stop.half \div 2, step.half \div 2))

\* parse_arange_expr(expr): the checks on the tree of ast.parse(expr,
\* mode="eval"), then np.arange(*args); every exception becomes ValueError
ParseArangeExpr(e) ==
    LET r == IF e.body = "SyntaxError" THEN Raised("SyntaxError", "invalid syntax")
             ELSE IF e.body # "Call" THEN Raised("ValueError", "Not a function call")
             ELSE IF e.func # "Attribute" THEN Raised("ValueError", "Not np.arange call")
             ELSE IF e.attr # "arange" THEN Raised("ValueError", "Not arange function")
             ELSE IF \E i \in DOMAIN e.args : ~IsNum(e.args[i])
             THEN Raised("ValueError", "Non-numeric argument")
             ELSE IF Len(e.args) # 3 THEN Raised("ValueError", "arange needs 3 arguments")
             ELSE NpArangeArgs([i \in 1..3 |-> e.args[i].n])
    IN  IF r.ok THEN r ELSE Raised("ValueError", r.msg)

\* the process while it runs, and after it has ended: the exit status, the
\* exception that ended it and the stage that raised it
Running == [code |-> -1, exc |-> "None", stage |-> "None"]

Exited(code, exc, stage) == [code |-> code, exc |-> exc, stage |-> stage]

\* a record of the log file, format "asctime | levelname | funcName | message"
LogRecord(funcName, message) ==
    [levelname |-> "INFO", funcName |-> funcName, message |-> message]

\* proc_dir = Path(args.proc_dir) / case_name
ProcDir(a) == <<a.proc_dir, a.case_name>>

\* a store named after the reference field
ZarrPathByLevType(a) ==
    ProcDir(a) \o <<a.file_prefix,
                    IF a.interp_var = "air_pressure" THEN "_plevs.zarr" ELSE "_hlevs.zarr">>

\* zarr_dir / f"{file_prefix}_hlevs.zarr"
ZarrPath(a) == ProcDir(a) \o <<a.file_prefix, "_hlevs.zarr">>

\* the places a store can be at
StorePaths ==
    {<<"./data", c, fp, sfx>> : c \in {"fatima", "fatima2"},
                                fp \in {"wrfout_d01", "wrfout_d02"},
                                sfx \in {"_hlevs.zarr", "_plevs.zarr"}}

\* case_dir.glob(f"{file_prefix}*")
Glob(dk, a) ==
    IF dk.dir = <<a.wrf_run, a.case_name>> /\ dk.prefix = a.file_prefix THEN Files ELSE {}

\* crs.to_proj4()
ToProj4(crs) == <<"+proj", crs.crs, "+lat_0", crs.lat_0, "+lon_0", crs.lon_0>>

\* the keys with the defaults of the options in place of the values given
ProvenanceOfDefaults(a, now) ==
    [PREPROCESS_WRFRUN |-> a.wrf_run,
     PREPROCESS_CASE_NAME |-> "fatima-20220720_20220723",
     PREPROCESS_FILE_PREFIX |-> "wrfout_d01",
     PREPROCESS_LEVS |-> a.levs,
     PREPROCESS_INTERP_VAR |-> "geopotential_height",
     PREPROCESS_TIMESTAMP |-> now]

\* the keys main adds to the attributes
Provenance(a, now) ==
    [PREPROCESS_WRFRUN |-> a.wrf_run,
     PREPROCESS_CASE_NAME |-> a.case_name,
     PREPROCESS_FILE_PREFIX |-> a.file_prefix,
     PREPROCESS_LEVS |-> a.levs,
     PREPROCESS_INTERP_VAR |-> a.interp_var,
     PREPROCESS_TIMESTAMP |-> now]

\* pd.Timestamp.now().isoformat()
Timestamps == {"2026-01-01T00:00:00", "2026-01-01T06:00:00"}

\* ds_p["wrf_projection"] = crs.to_proj4(); ds_p.attrs.update(...)
Assembled(dp, a, now) ==
    [dp EXCEPT !.data = [@ EXCEPT !["wrf_projection"] = ToProj4(@)],
               !.attrs = Update(@, Provenance(a, now))]

(* a zarr store: a directory holding the group's attributes, the metadata of
   each array (its dims) and the chunks of each array (its data) *)
NoStore == [exists |-> FALSE, attrs |-> <<>>, dims |-> <<>>, coords |-> {}, data |-> <<>>]

EmptyGroup == [exists |-> TRUE, attrs |-> <<>>, dims |-> <<>>, coords |-> {}, data |-> <<>>]

\* times as xarray's CF encoding stores them: the first time as the
\* reference of the units ("hours since ...") and integer offsets from it
EncodeTimes(times) ==
    [since |-> times[1], offsets |-> [i \in DOMAIN times |-> times[i] - times[1]]]

\* the offsets read as times, decode_times being off
DecodeTimesAsOffsets(enc) == enc.offsets

\* the times back from reference and offsets
DecodeTimes(enc) == [i \in DOMAIN enc.offsets |-> enc.since + enc.offsets[i]]

\* the arrays as to_zarr stores them
EncodeCF(data) ==
    [n \in DOMAIN data |-> IF n = "Time" THEN EncodeTimes(data[n]) ELSE data[n]]

\* the arrays as open_zarr decodes them
DecodeCF(data) ==
    [n \in DOMAIN data |-> IF n = "Time" THEN DecodeTimes(data[n]) ELSE data[n]]

\* the store that holds a dataset
Stored(dp) ==
    [exists |-> TRUE, attrs |-> dp.attrs, dims |-> dp.dims, coords |-> dp.coords,
     data |-> EncodeCF(dp.data)]

\* mode="a": what is there stays
ZarrOpenAppend(st) == IF st.exists THEN st ELSE EmptyGroup

\* to_zarr(path, mode="w") opens the group: what is there is removed
ZarrOpen(st) == EmptyGroup

\* to_zarr then writes the attributes and the metadata of every variable
ZarrSetMetadata(st, dp) ==
    [st EXCEPT !.exists = TRUE,
               !.attrs = Update(@, dp.attrs),
               !.dims = Update(@, dp.dims),
               !.coords = (@ \ DOMAIN dp.dims) \cup dp.coords]

\* no chunk written
ZarrSetDataSkipped(st, dp) == [st EXCEPT !.exists = TRUE]

\* and last the chunks, computed from the lazy arrays
ZarrSetData(st, dp) == [st EXCEPT !.exists = TRUE, !.data = Update(@, EncodeCF(dp.data))]

\* the first name of names that ds lacks, "" if none
FirstMissing(d, names) ==
    IF \A i \in DOMAIN names : names[i] \in DOMAIN d.dims THEN ""
    ELSE names[CHOOSE i \in DOMAIN names :
                   /\ names[i] \notin DOMAIN d.dims
                   /\ \A j \in 1..(i - 1) : names[j] \in DOMAIN d.dims]

\* the name whose lookup raises in _to_levs
ToLevsMissing(d, lev_type) == FirstMissing(d, <<"T2", "wind_east", lev_type, "wrf_projection">>)

LevType(a) == IF a.interp_var = "geopotential_height" THEN "geopotential_height" ELSE "air_pressure"

\* the dataset a run without failure hands to to_zarr
FinalDataset(dk, a, now) ==
    LET loaded == ReadWrfout(dk, [i \in 1..NTime |-> i])
        computed == ComputeAdditionalVariablesInplace(loaded).ds
    IN  Assembled(ToLevs(computed, ParseArangeExpr(a.levs).value, LevType(a)), a, now)

\* files with one more surface field and one more attribute
WithSST(in) ==
    [in EXCEPT !.dims = Update(@, [SST |-> D2]),
               !.steps = [f \in Files |-> Update(in.steps[f], [SST |-> 290 + f])],
               !.attrs = Update(@, [SST_SOURCE |-> "OSTIA"])]

(* another run of the program on the same store: none, one that ended
   earlier (pc "written"), or one under way (its place in to_zarr) *)
NoOther == [pc |-> "none", ds_p |-> NoDs]

\* an earlier run, to pressure levels, on files that had SST
Earlier ==
    [pc |-> "written",
     ds_p |-> FinalDataset(WithSST(BaseInput), BaseArgs(Lev100, "air_pressure"),
                           "2025-12-31T00:00:00")]

\* no viewer is run
NoViewer ==
    [kind |-> "none", argv_ok |-> TRUE, serve |-> FALSE, force_serve |-> FALSE,
     display |-> FALSE, pc |-> "none", ds |-> NoDs, built |-> FALSE, widgets |-> <<>>,
     served |-> FALSE, show |-> FALSE, out |-> <<>>, raised |-> "None"]

\* the files and command lines of the runs, and the run before
Cases ==
    (Inputs \X ArgChoices \X {NoOther})
        \cup (InputsMissing \X {BaseArgs(Lev100, iv) : iv \in InterpVars} \X {NoOther})
        \cup (InputsRestart \X {BaseArgs(Lev100, iv) : iv \in InterpVars} \X {NoOther})
        \cup (InputsPaths \X ArgsPaths \X {NoOther, Earlier})
        \cup ({BaseInput} \X ArgsRejected \X {NoOther, Earlier})

\* the state of a run at its start
Start(dk, a, oth) ==
    /\ disk = dk
    /\ args = a
    /\ pc = "start"
    /\ levs = <<>>
    /\ ds = NoDs
    /\ ds_p = NoDs
    /\ dirs = IF oth.pc = "written" THEN {ProcDir(a)} ELSE {}
    /\ store = [p \in StorePaths |->
                   IF p = <<a.proc_dir, a.case_name, a.file_prefix, "_hlevs.zarr">>
                      /\ oth.pc = "written"
                   THEN Stored(oth.ds_p) ELSE NoStore]
    /\ log = <<>>
    /\ exit = Running
    /\ other = oth
    /\ evaluated = <<>>
    /\ quantified = [ds |-> {}, ds_p |-> {}]
    /\ viewer = NoViewer

Init == \E c \in Cases : Start(c[1], c[2], c[3])

\* args = parser.parse_args(): an --interp_var that is not a choice ends the
\* process with status 2.  Then logging.basicConfig(filemode="w") and the
\* first record, levs = parse_arange_expr(args.levs), and
\* proc_dir.mkdir(exist_ok=True, parents=True).
ParseArgs ==
    /\ pc = "start"
    /\ IF args.interp_var \notin InterpVars
       THEN /\ pc' = "failed"
            /\ exit' = Exited(2, "SystemExit", "config")
            /\ UNCHANGED <<levs, dirs, log>>
       ELSE /\ log' = <<LogRecord("main", "program args")>>
            /\ LET r == ParseArangeExpr(args.levs)
               IN  IF r.ok
                   THEN /\ levs' = r.value
                        /\ dirs' = dirs \cup {ProcDir(args)}
                        /\ pc' = "parsed"
                        /\ UNCHANGED exit
                   ELSE /\ pc' = "failed"
                        /\ exit' = Exited(1, r.exc, "config")
                        /\ UNCHANGED <<levs, dirs>>
    /\ UNCHANGED <<disk, args, ds, ds_p, store, other, evaluated, quantified, viewer>>

\* fpaths = list(case_dir.glob(...)), in the order the directory yields, and
\* ds = read_wrfout(fpaths, t_chunk=1).unify_chunks(); open_mfdataset raises
\* OSError when there is no file
Load ==
    /\ pc = "parsed"
    /\ log' = log \o <<LogRecord("main", "wrfout files detected"),
                      LogRecord("read_wrfout", "Reading wrfout files")>>
    /\ IF Glob(disk, args) = {}
       THEN /\ pc' = "failed"
            /\ exit' = Exited(1, "OSError", "load")
            /\ UNCHANGED ds
       ELSE /\ \E fpaths \in Perms(Glob(disk, args)) : ds' = ReadWrfout(disk, fpaths)
            /\ pc' = "loaded"
            /\ UNCHANGED exit
    /\ UNCHANGED <<disk, args, levs, ds_p, dirs, store, other, evaluated, quantified, viewer>>

\* compute_additional_variables_inplace(ds): ds[name] raises KeyError
Compute ==
    /\ pc = "loaded"
    /\ log' = log \o <<LogRecord("compute_additional_variables_inplace",
                                 "Computing additional variables inplace")>>
    /\ LET r == ComputeAdditionalVariablesInplace(ds)
       IN  /\ ds' = r.ds
           /\ pc' = IF r.ok THEN "computed" ELSE "failed"
           /\ exit' = IF r.ok THEN exit ELSE Exited(1, "KeyError", "compute")
    /\ evaluated' = evaluated \o ComputeCalls(ds)
    /\ quantified' = [quantified EXCEPT !.ds = @ \cup ComputeQuantified(ds)]
    /\ UNCHANGED <<disk, args, levs, ds_p, dirs, store, other, viewer>>

\* ds_p = to_hlevs(ds, levs) if args.interp_var == "geopotential_height"
\*        else to_plevs(ds, levs)
Regrid ==
    /\ pc = "computed"
    /\ log' = log \o <<LogRecord("_to_levs", "Project xr.Dataset to altitude levels")>>
    /\ LET missing == ToLevsMissing(ds, LevType(args))
       IN  IF missing = ""
           THEN /\ ds_p' = ToLevs(ds, levs, LevType(args))
                /\ pc' = "regridded"
                /\ UNCHANGED exit
           ELSE /\ pc' = "failed"
                /\ exit' = Exited(1, IF missing = "wrf_projection" THEN "AttributeError"
                                     ELSE "KeyError", "regrid")
                /\ UNCHANGED ds_p
    /\ quantified' = [quantified EXCEPT !.ds_p = IF ToLevsMissing(ds, LevType(args)) = ""
                                                 THEN ToLevsQuantified(ds, quantified.ds)
                                                 ELSE @]
    /\ UNCHANGED <<disk, args, levs, ds, dirs, store, other, evaluated, viewer>>

\* ds_p.attrs and ds.attrs one dict, as a plain assignment would leave them
AttrsAliasedByAssignment == TRUE

\* ds_p.attrs = ds.attrs: the setter of xr.Dataset stores dict(value), so the
\* two datasets do not hold one dict
AttrsAliased == FALSE

\* the projection string in place of the CRS object, and the provenance keys;
\* an update of ds_p.attrs reaches ds.attrs when the two are one dict
Assemble ==
    /\ pc = "regridded"
    /\ \E now \in Timestamps : ds_p' = Assembled(ds_p, args, now)
    /\ ds' = IF AttrsAliased THEN [ds EXCEPT !.attrs = ds_p'.attrs] ELSE ds
    /\ pc' = "assembled"
    /\ UNCHANGED <<disk, args, levs, dirs, store, log, exit, other, evaluated, quantified,
                   viewer>>

\* the store opened once _to_levs has returned, the assembly left for later
WriteOpenEarly ==
    /\ pc = "regridded"
    /\ dirs' = dirs \cup {ProcDir(args)}
    /\ store' = [store EXCEPT ![ZarrPath(args)] = ZarrOpen(@)]
    /\ pc' = "opened"
    /\ UNCHANGED <<disk, args, levs, ds, ds_p, log, exit, other, evaluated, quantified, viewer>>

\* zarr_dir.mkdir(exist_ok=True), and to_zarr(..., mode="w") opens the store
WriteOpen ==
    /\ pc = "assembled"
    /\ dirs' = dirs \cup {ProcDir(args)}
    /\ store' = [store EXCEPT ![ZarrPath(args)] = ZarrOpen(@)]
    /\ pc' = "opened"
    /\ UNCHANGED <<disk, args, levs, ds, ds_p, log, exit, other, evaluated, quantified, viewer>>

WriteMetadata ==
    /\ pc = "opened"
    /\ store' = [store EXCEPT ![ZarrPath(args)] = ZarrSetMetadata(@, ds_p)]
    /\ pc' = "described"
    /\ UNCHANGED <<disk, args, levs, ds, ds_p, dirs, log, exit, other, evaluated,
                   quantified, viewer>>

\* the chunks are in the store: to_zarr returns and the process ends
WriteData ==
    /\ pc = "described"
    /\ store' = [store EXCEPT ![ZarrPath(args)] = ZarrSetData(@, ds_p)]
    /\ pc' = "written"
    /\ exit' = Exited(0, "None", "None")
    /\ evaluated' = evaluated \o <<Evaluation("write", "ds_p")>>
    /\ UNCHANGED <<disk, args, levs, ds, ds_p, dirs, log, other, quantified, viewer>>

\* the store removed when to_zarr raises
WriteFailsAndCleansUp ==
    /\ pc \in {"assembled", "opened", "described"}
    /\ pc' = "failed"
    /\ exit' = Exited(1, "OSError", "write")
    /\ store' = [store EXCEPT ![ZarrPath(args)] = NoStore]
    /\ UNCHANGED <<disk, args, levs, ds, ds_p, dirs, log, other, evaluated, quantified, viewer>>

\* to_zarr raises OSError (no permission, no space left) at any of its steps
WriteFails ==
    /\ pc \in {"assembled", "opened", "described"}
    /\ pc' = "failed"
    /\ exit' = Exited(1, "OSError", "write")
    /\ UNCHANGED <<disk, args, levs, ds, ds_p, dirs, store, log, other, evaluated,
                   quantified, viewer>>

Next ==
    \/ ParseArgs
    \/ Load
    \/ Compute
    \/ Regrid
    \/ Assemble
    \/ WriteOpen
    \/ WriteMetadata
    \/ WriteData
    \/ WriteFails

Spec == Init /\ [][Next]_vars

\* the same pipeline on inputs whose 2-D and 3-D dims may coincide
InitAnyDims ==
    \E dk \in InputsAnyDims, a \in ArgChoices : Start(dk, a, NoOther)

SpecAnyDims == InitAnyDims /\ [][Next]_vars

\* numbers written in a --levs string: 0, 2, 5, 0.5, 2.5, and the floats
\* 9007199254740992.0 (2^53), 9007199254740996.0 and 9007199254741000.0
LevNumbers ==
    {IntLit(0), IntLit(2), IntLit(5), FloatLit(0, 1), FloatLit(0, 5),
     FloatLit(1, 0), FloatLit(1, 8), FloatLit(1, 16)}

\* steps: 0, 1, 2, 0.5 and 1.5
LevSteps == {IntLit(0), IntLit(1), IntLit(2), FloatLit(0, 1), FloatLit(0, 3)}

\* the --levs strings np.arange(<number>, <number>, <number>), and the others
ParseExprs ==
    {Expr("Call", "Attribute", "arange",
          <<ArgNode("Num", a), ArgNode("Num", b), ArgNode("Num", c)>>) :
        a \in LevNumbers, b \in LevNumbers, c \in LevSteps} \cup BadExprs

\* main up to levs = parse_arange_expr(args.levs), on these strings
InitParse ==
    \E e \in ParseExprs : Start(BaseInput, BaseArgs(e, "geopotential_height"), NoOther)

NextParse == ParseArgs

SpecParse == InitParse /\ [][NextParse]_vars

(* a second run of the program on the same files, with its own command line,
   that targets the same store and is at its to_zarr when this run starts;
   the two processes share nothing but the file system *)
Concurrent(dk, a) ==
    [pc |-> "assembled", ds_p |-> FinalDataset(dk, a, "2026-01-01T03:00:00")]

InitTwoRuns ==
    \E a \in ArgChoices, b \in ArgChoices : Start(BaseInput, a, Concurrent(BaseInput, b))

OtherWriteOpen ==
    /\ other.pc = "assembled"
    /\ dirs' = dirs \cup {ProcDir(args)}
    /\ store' = [store EXCEPT ![ZarrPath(args)] = ZarrOpen(@)]
    /\ other' = [other EXCEPT !.pc = "opened"]
    /\ UNCHANGED <<disk, args, pc, levs, ds, ds_p, log, exit, evaluated, quantified, viewer>>

OtherWriteMetadata ==
    /\ other.pc = "opened"
    /\ store' = [store EXCEPT ![ZarrPath(args)] = ZarrSetMetadata(@, other.ds_p)]
    /\ other' = [other EXCEPT !.pc = "described"]
    /\ UNCHANGED <<disk, args, pc, levs, ds, ds_p, dirs, log, exit, evaluated, quantified,
                   viewer>>

OtherWriteData ==
    /\ other.pc = "described"
    /\ store' = [store EXCEPT ![ZarrPath(args)] = ZarrSetData(@, other.ds_p)]
    /\ other' = [other EXCEPT !.pc = "written"]
    /\ UNCHANGED <<disk, args, pc, levs, ds, ds_p, dirs, log, exit, evaluated, quantified,
                   viewer>>

NextTwoRuns ==
    \/ Next
    \/ OtherWriteOpen
    \/ OtherWriteMetadata
    \/ OtherWriteData

SpecTwoRuns == InitTwoRuns /\ [][NextTwoRuns]_vars

(* ------------------------------ properties ---------------------------- *)

\* compute_additional_variables_inplace has returned
AfterCompute == pc \in {"computed", "regridded"}

\* _to_levs has returned: ds is its input, ds_p its result
AfterRegrid == pc \in {"regridded"}

\* the variables with the dims of T2, and of wind_east, in the input of _to_levs
SurfaceNames == {v \in DOMAIN ds.dims : ds.dims[v] = ds.dims["T2"]}

LevelNames == {v \in DOMAIN ds.dims : ds.dims[v] = ds.dims["wind_east"]}

\* the regridded fields: the 3-D variables but the reference field, whose
\* name the target level coordinate takes
RegriddedNames == LevelNames \ {args.interp_var}

RefCol(t) == ds.data[args.interp_var][t]

StrictlyMonotonic(s) ==
    \/ \A k \in 1..(Len(s) - 1) : s[k] < s[k + 1]
    \/ \A k \in 1..(Len(s) - 1) : s[k] > s[k + 1]

Between(x, a, b) == (a <= x /\ x <= b) \/ (b <= x /\ x <= a)

\* C1: a target level below the minimum or above the maximum of a column's
\* reference coordinate is missing in every regridded 3-D variable, and a
\* level inside the range is not
C1_OutsideRangeMissing ==
    AfterRegrid =>
        \A t \in DOMAIN ds.data["wind_east"] :
            LET lo == SeqMin(RefCol(t))
                hi == SeqMax(RefCol(t))
            IN  \A i \in DOMAIN levs :
                    LET outside == levs[i] < lo \/ levs[i] > hi
                    IN  \A v \in RegriddedNames : IsNaN(ds_p.data[v][t][i]) <=> outside

\* levels 0..1900 step 100 on a height column spanning [50, 1800]
C1_Witness ==
    /\ AfterRegrid
    /\ args.interp_var = "geopotential_height"
    /\ levs = NpArange(0, 2000, 100)
    /\ SeqMin(RefCol(1)) = 50
    /\ SeqMax(RefCol(1)) = 1800
    /\ IsNaN(ds_p.data["U"][1][1])
    /\ IsNaN(ds_p.data["U"][1][20])
    /\ ~IsNaN(ds_p.data["U"][1][2])

\* C2: on a strictly monotonic column a target level strictly inside the
\* range gets the linear interpolation between the two native levels whose
\* reference values bracket it
C2_LinearBetweenBrackets ==
    AfterRegrid =>
        \A t \in DOMAIN ds.data["wind_east"] :
            LET th == RefCol(t)
                lo == SeqMin(th)
                hi == SeqMax(th)
            IN  StrictlyMonotonic(th) =>
                \A i \in DOMAIN levs : \A k \in 1..(NLev - 1) :
                    LET x == levs[i]
                        dth == th[k + 1] - th[k]
                    IN  (lo < x /\ x < hi /\ Between(x, th[k], th[k + 1])) =>
                        \A v \in RegriddedNames :
                            LET phi == ds.data[v][t]
                                out == ds_p.data[v][t][i]
                            IN  /\ out[2] > 0
                                /\ out[1] * dth
                                     = out[2] * (phi[k] * dth + (phi[k + 1] - phi[k]) * (x - th[k]))

\* a level strictly between two native levels of a decreasing (pressure)
\* column and of an increasing (height) one, with a fractional result
C2_Witness ==
    /\ AfterRegrid
    /\ \E v \in RegriddedNames : \E t \in DOMAIN ds_p.data[v] : \E i \in DOMAIN levs :
          /\ SeqMin(RefCol(t)) < levs[i]
          /\ levs[i] < SeqMax(RefCol(t))
          /\ levs[i] \notin Elems(RefCol(t))
          /\ ds_p.data[v][t][i][2] > 1

\* C3: a target level equal to the reference value of a native level gets the
\* variable's value at that native level
C3_NativeLevelReproduced ==
    AfterRegrid =>
        \A t \in DOMAIN ds.data["wind_east"] : \A i \in DOMAIN levs : \A k \in Levels :
            levs[i] = RefCol(t)[k] =>
                \A v \in RegriddedNames : ds_p.data[v][t][i] = FromInt(ds.data[v][t][k])

\* target levels at the lowest and at the highest native level of a column
C3_Witness ==
    /\ AfterRegrid
    /\ \E t \in DOMAIN ds.data["U"] : \E i, j \in DOMAIN levs :
          /\ levs[i] = RefCol(t)[1]
          /\ levs[j] = RefCol(t)[NLev]
          /\ ds.data["U"][t][1] # ds.data["U"][t][NLev]
          /\ ds_p.data["U"][t][i] = FromInt(ds.data["U"][t][1])
          /\ ds_p.data["U"][t][j] = FromInt(ds.data["U"][t][NLev])

\* C4: every variable with the native 3-D dims is in the output on the target
\* level axis, whose coordinate holds the requested levels in their order, and
\* no output variable keeps the native vertical axis
C4_TargetAxis ==
    AfterRegrid =>
        /\ \A v \in LevelNames :
              /\ v \in DOMAIN ds_p.dims
              /\ args.interp_var \in Elems(ds_p.dims[v])
        /\ \A n \in DOMAIN ds_p.dims : "z" \notin Elems(ds_p.dims[n])
        /\ ds_p.dims[args.interp_var] = <<args.interp_var>>
        /\ ds_p.data[args.interp_var] = levs
        /\ args.interp_var \in ds_p.coords
        /\ \A v \in RegriddedNames : \A t \in DOMAIN ds_p.data[v] :
              DOMAIN ds_p.data[v][t] = DOMAIN levs

\* pressure levels: the fields, geopotential_height among them, are on the
\* air_pressure axis, and the input's z coordinate is not in the output
C4_Witness ==
    /\ AfterRegrid
    /\ Len(levs) > 1
    /\ "z" \in ds.coords
    /\ "z" \notin DOMAIN ds_p.dims
    /\ "z" \in Elems(ds.dims["wind_speed"])
    /\ ds_p.dims["wind_speed"] = <<"Time", "y", "x", "air_pressure">>
    /\ ds_p.dims["geopotential_height"] = <<"Time", "y", "x", "air_pressure">>

\* C5: every variable with the dims of T2 is in the output with the values it
\* has in the input
C5_SurfaceUnchanged ==
    AfterRegrid =>
        \A v \in SurfaceNames :
            /\ v \in DOMAIN ds_p.data
            /\ ds_p.data[v] = ds.data[v]
            /\ ds_p.dims[v] = ds.dims[v]

\* surface fields, two of them derived, whose values differ between time steps
C5_Witness ==
    /\ AfterRegrid
    /\ {"T2", "U10", "wind_speed_10"} \subseteq SurfaceNames
    /\ ds_p.data["T2"][1] # ds_p.data["T2"][2]
    /\ ds_p.data["wind_speed_10"] = ds.data["wind_speed_10"]

\* C6 as stated: the output's variable names are the 2-D and the 3-D names
C6_NamesAreUnion ==
    AfterRegrid => DOMAIN ds_p.dims = SurfaceNames \cup LevelNames

\* C6 as amended: the output's variable names are the 2-D and the 3-D names,
\* wrf_projection, and coordinates of the input; no other input variable and
\* no new name is among them
C6_NamesAreUnionPlusProjection ==
    AfterRegrid =>
        /\ SurfaceNames \cup LevelNames \cup {"wrf_projection"} \subseteq DOMAIN ds_p.dims
        /\ DOMAIN ds_p.dims \ (SurfaceNames \cup LevelNames \cup {"wrf_projection"})
              \subseteq ds.coords

\* wrf_projection and the XLAT coordinate are in the output; the soil field
\* and the z coordinate are not
C6_Witness ==
    /\ AfterRegrid
    /\ "wrf_projection" \in DOMAIN ds_p.dims
    /\ "wrf_projection" \notin SurfaceNames \cup LevelNames
    /\ "XLAT" \in DOMAIN ds_p.dims
    /\ "z" \in DOMAIN ds.dims
    /\ "z" \notin DOMAIN ds_p.dims
    /\ "TSLB" \in DOMAIN ds.dims
    /\ "TSLB" \notin DOMAIN ds_p.dims

\* a name is both in vars_2d and in vars_3d
Collision == SurfaceNames \cap LevelNames # {}

\* C7 as stated: with a name both 2-D and 3-D, _to_levs does not return a
\* dataset
C7_CollisionFails == ~(AfterRegrid /\ Collision)

\* C7 as amended: with a name both 2-D and 3-D, _to_levs returns, and the
\* output holds under that name the 2-D entry, the input's values on the
\* input's dims, not the regridded one
C7_CollisionKeepsSurfaceEntry ==
    (AfterRegrid /\ Collision) =>
        \A v \in SurfaceNames \cap LevelNames :
            /\ ds_p.dims[v] = ds.dims[v]
            /\ ds_p.data[v] = ds.data[v]

\* T2 on the dims of wind_east: wind_speed is both 2-D and 3-D, and the output
\* has it on the native levels
C7_Witness ==
    /\ AfterRegrid
    /\ Collision
    /\ "wind_speed" \in SurfaceNames \cap LevelNames
    /\ "z" \in Elems(ds_p.dims["wind_speed"])

WindDirectionValues ==
    {ds.data["wind_direction_10"][t] : t \in DOMAIN ds.data["wind_direction_10"]}
    \cup UNION {Elems(ds.data["wind_direction"][t]) : t \in DOMAIN ds.data["wind_direction"]}

\* C8: every stored wind direction, at 10 m and at the native levels, is in
\* [0, 360)
C8_DirectionBelow360 ==
    AfterCompute => \A w \in WindDirectionValues : 0 <= w /\ w < Deg(360)

\* C9: wind_speed_10 is the Euclidean norm of (U10, V10) and wind_speed that
\* of (U, V) at the same level and time
C9_SpeedIsNorm ==
    AfterCompute =>
        \A t \in DOMAIN ds.data["U10"] :
            /\ ds.data["wind_speed_10"][t] >= 0
            /\ ds.data["wind_speed_10"][t] * ds.data["wind_speed_10"][t]
                 = ds.data["U10"][t] * ds.data["U10"][t] + ds.data["V10"][t] * ds.data["V10"][t]
            /\ \A k \in Levels :
                  /\ ds.data["wind_speed"][t][k] >= 0
                  /\ ds.data["wind_speed"][t][k] * ds.data["wind_speed"][t][k]
                       = ds.data["U"][t][k] * ds.data["U"][t][k]
                           + ds.data["V"][t][k] * ds.data["V"][t][k]

\* U = 3, V = 4 gives 5, at 10 m and at a native level
C9_Witness ==
    /\ AfterCompute
    /\ \E t \in DOMAIN ds.data["U10"] :
          /\ ds.data["U10"][t] = 3
          /\ ds.data["V10"][t] = 4
          /\ ds.data["wind_speed_10"][t] = 5
          /\ ds.data["U"][t][1] = 3
          /\ ds.data["V"][t][1] = 4
          /\ ds.data["wind_speed"][t][1] = 5

\* C10: a successful call keeps every field of the dataset, with its dims and
\* values, and adds the six derived fields, none of which was there before
C10_ComputeAddsOnly ==
    [][(pc = "loaded" /\ pc' = "computed") =>
          /\ DOMAIN ds'.data = DOMAIN ds.data \cup DerivedNames
          /\ DOMAIN ds'.dims = DOMAIN ds.dims \cup DerivedNames
          /\ DerivedNames \cap DOMAIN ds.data = {}
          /\ \A v \in DOMAIN ds.data :
                /\ ds'.data[v] = ds.data[v]
                /\ ds'.dims[v] = ds.dims[v]
          /\ ds'.coords = ds.coords
          /\ ds'.attrs = ds.attrs]_vars

\* the call has returned: the inputs and the six derived fields are there
C10_Witness ==
    /\ pc = "computed"
    /\ DerivedNames \subseteq DOMAIN ds.data
    /\ {"U10", "V10", "U", "V", "T2", "QVAPOR"} \subseteq DOMAIN ds.data

\* C11: when the loaded dataset lacks one of U10, V10, U, V, air_pressure,
\* air_potential_temperature, QVAPOR, compute_additional_variables_inplace
\* raises KeyError: the run ends there, with no regridded dataset and the
\* store as it was, and takes no step after
C11_MissingFieldFails ==
    [][/\ pc # "failed"
       /\ (pc = "loaded" /\ ~(RequiredFields \subseteq DOMAIN ds.dims)) =>
              /\ pc' = "failed"
              /\ exit' = Exited(1, "KeyError", "compute")
              /\ ds_p' = NoDs
              /\ store' = store]_vars

\* QVAPOR is absent: the run has failed in the last assignment, the fields
\* assigned before it are in ds, and nothing is regridded or stored
C11_Witness ==
    /\ pc = "failed"
    /\ exit = Exited(1, "KeyError", "compute")
    /\ "QVAPOR" \notin DOMAIN ds.dims
    /\ "Ta" \in DOMAIN ds.dims
    /\ "RH" \notin DOMAIN ds.dims
    /\ ds_p = NoDs
    /\ \A p \in StorePaths : ~store[p].exists

\* the places of main in the order of its statements: the command line read,
\* the files loaded, the derived fields computed, the fields regridded, the
\* dataset assembled, and the three steps of the store write
StageOrder ==
    <<"start", "parsed", "loaded", "computed", "regridded", "assembled",
      "opened", "described", "written">>

Position(p) == CHOOSE i \in DOMAIN StageOrder : StageOrder[i] = p

\* the functions that have written to the log, in the order of their records
LogFunctions == [i \in DOMAIN log |-> log[i].funcName]

\* C12: the stages run in the order load, derived variables, regridding,
\* assembly, store write: every step of a run goes from one place of main to
\* the next one or ends the run, none goes back or repeats, the store
\* changes in the steps of the write only, and nothing follows the write
C12_StagesInOrder ==
    [][/\ pc \notin {"written", "failed"}
       /\ pc' = "failed" \/ Position(pc') = Position(pc) + 1
       /\ store' # store => pc \in {"assembled", "opened", "described"}
       /\ ds' # ds => pc \in {"parsed", "loaded"}
       /\ ds_p' # ds_p => pc \in {"computed", "regridded"}]_vars

\* a run that has written its store: the functions have logged in the order
\* main, read_wrfout, compute_additional_variables_inplace, _to_levs
C12_Witness ==
    /\ pc = "written"
    /\ exit.code = 0
    /\ LogFunctions = <<"main", "main", "read_wrfout",
                         "compute_additional_variables_inplace", "_to_levs">>
    /\ store[ZarrPath(args)] = Stored(ds_p)

\* the store a run finds at its start
StoreAtStart ==
    [p \in StorePaths |->
        IF p = ZarrPath(args) /\ other.pc = "written" THEN Stored(other.ds_p) ELSE NoStore]

ErrorRecords == {i \in DOMAIN log : log[i].levelname \in {"ERROR", "CRITICAL"}}

\* C14: when a stage has failed, the log file holds an error record with the
\* function name and the message, and the exit status is a failure
C14_FailureLogged ==
    pc = "failed" => (ErrorRecords # {} /\ exit.code # 0)

\* a --levs string that reads <name>.arange(<number>, <number>, <number>)
IsArangeOfThreeNumbers(e) ==
    /\ e.body = "Call"
    /\ e.func = "Attribute"
    /\ e.attr = "arange"
    /\ Len(e.args) = 3
    /\ \A i \in DOMAIN e.args : e.args[i].node = "Num"

\* C15: a --levs string that is not a call of an attribute arange with three
\* number literals makes parse_arange_expr raise ValueError, and an
\* --interp_var that is not one of the two choices is rejected by the
\* argument parser; either way the run ends in its first step with no file
\* read, no directory created and no store touched
C15_ConfigurationRejected ==
    [][/\ pc # "failed"
       /\ (pc = "start" /\ args.interp_var \notin InterpVars) =>
              /\ pc' = "failed"
              /\ exit' = Exited(2, "SystemExit", "config")
              /\ UNCHANGED <<ds, ds_p, dirs, store, log>>
       /\ (pc = "start" /\ args.interp_var \in InterpVars
                        /\ ~IsArangeOfThreeNumbers(args.levs)) =>
              /\ pc' = "failed"
              /\ exit' = Exited(1, "ValueError", "config")
              /\ UNCHANGED <<ds, ds_p, dirs, store>>]_vars

\* "np.arange(-100, 2000, 100)" has been rejected: -100 is no number literal
C15_Witness ==
    /\ pc = "failed"
    /\ exit = Exited(1, "ValueError", "config")
    /\ args.levs.attr = "arange"
    /\ Len(args.levs.args) = 3
    /\ args.levs.args[1].node = "UnaryOp"
    /\ ds = NoDs
    /\ dirs = {}
    /\ store = StoreAtStart

\* the levels are float64 when a float is among the three numbers
FloatLevels == \E i \in DOMAIN args.levs.args : args.levs.args[i].n.float

\* a < b for two levels of the sequence parse_arange_expr returned
LevelLess(a, b) ==
    IF FloatLevels THEN a.hi < b.hi \/ (a.hi = b.hi /\ a.half < b.half) ELSE a < b

\* C16: the level sequence parse_arange_expr returns is strictly ordered
C16_LevelsStrictlyOrdered ==
    pc = "parsed" => \A i \in 1..(Len(levs) - 1) : LevelLess(levs[i], levs[i + 1])

\* the second half of C16: once built, the sequence is not changed
LevsNeverModified == [][pc # "start" => levs' = levs]_vars

ProvenanceKeys ==
    {"PREPROCESS_WRFRUN", "PREPROCESS_CASE_NAME", "PREPROCESS_FILE_PREFIX",
     "PREPROCESS_LEVS", "PREPROCESS_INTERP_VAR", "PREPROCESS_TIMESTAMP"}

\* C17: the attributes in the written store are the attributes of the loaded
\* dataset, each with its value, and the six PREPROCESS_ keys; the first five
\* hold the values of the command line, and PREPROCESS_INTERP_VAR is the name
\* of the field whose values are the levels of the regridded variables
C17_AttributesCarried ==
    pc = "written" =>
        LET written == store[<<args.proc_dir, args.case_name, args.file_prefix, "_hlevs.zarr">>]
            a == written.attrs
        IN  /\ DOMAIN a = DOMAIN ds.attrs \cup ProvenanceKeys
            /\ \A k \in DOMAIN ds.attrs : a[k] = ds.attrs[k]
            /\ DOMAIN ds.attrs # {}
            /\ a["PREPROCESS_WRFRUN"] = args.wrf_run
            /\ a["PREPROCESS_CASE_NAME"] = args.case_name
            /\ a["PREPROCESS_FILE_PREFIX"] = args.file_prefix
            /\ a["PREPROCESS_LEVS"] = args.levs
            /\ a["PREPROCESS_INTERP_VAR"] = args.interp_var
            /\ a["PREPROCESS_TIMESTAMP"] \in Timestamps
            /\ written.dims[a["PREPROCESS_INTERP_VAR"]] = <<a["PREPROCESS_INTERP_VAR"]>>
            /\ written.data[a["PREPROCESS_INTERP_VAR"]] = levs
            /\ \A v \in DOMAIN ds.dims :
                   (ds.dims[v] = D3 /\ v # args.interp_var) =>
                       a["PREPROCESS_INTERP_VAR"] \in Elems(written.dims[v])

\* a run to pressure levels on the second case and the second prefix
C17_Witness ==
    /\ pc = "written"
    /\ args.interp_var = "air_pressure"
    /\ args.case_name = "fatima2"
    /\ args.file_prefix = "wrfout_d02"
    /\ store[ZarrPath(args)].attrs["TITLE"] = "OUTPUT FROM WRF"
    /\ store[ZarrPath(args)].attrs["PREPROCESS_INTERP_VAR"] = "air_pressure"

\* C18: a run that finds a store at its target, left by an earlier run,
\* replaces it: once the write has returned the store holds the variables,
\* the data and the attributes of this run's dataset and nothing else
C18_StoreReplaced ==
    pc = "written" =>
        LET written == store[ZarrPath(args)]
        IN  /\ written.exists
            /\ written.attrs = ds_p.attrs
            /\ written.dims = ds_p.dims
            /\ written.coords = ds_p.coords
            /\ written.data = EncodeCF(ds_p.data)

\* the earlier run had SST and SST_SOURCE, this run's files have not: the
\* store it has written has neither
C18_Witness ==
    /\ pc = "written"
    /\ other.pc = "written"
    /\ "SST" \in DOMAIN other.ds_p.dims
    /\ "SST_SOURCE" \in DOMAIN other.ds_p.attrs
    /\ "SST" \notin DOMAIN store[ZarrPath(args)].dims
    /\ "SST" \notin DOMAIN store[ZarrPath(args)].data
    /\ "SST_SOURCE" \notin DOMAIN store[ZarrPath(args)].attrs
    /\ "T2" \in DOMAIN store[ZarrPath(args)].data

\* both runs have returned from to_zarr
BothWritten == pc = "written" /\ other.pc = "written"

\* the value a run's dataset has for an item, if it has the item
ItemsOf(field, n) ==
    {Stored(dp)[field][n] : dp \in {d \in {ds_p, other.ds_p} : n \in DOMAIN d[field]}}

StoresThere == {p \in StorePaths : store[p].exists}

PathOrders == Perms(Glob(disk, args))

\* the dataset holds every time step of every file, once
EveryTimeStep(d, paths) ==
    /\ Len(d.data["Time"]) = Len(paths)
    /\ Elems(d.data["Time"]) = {disk.time[paths[i]] : i \in DOMAIN paths}
    /\ \A n \in DOMAIN d.dims :
           "Time" \in Elems(d.dims[n]) /\ n # "Time"
               => \A i \in DOMAIN paths :
                     \E f \in Elems(paths) :
                        /\ d.data["Time"][i] = disk.time[f]
                        /\ d.data[n][i] = IF "z_stag" \in Elems(disk.dims[n])
                                          THEN DestaggerColumn(disk.steps[f][n])
                                          ELSE disk.steps[f][n]

\* no variable is left on the cell faces and W holds one value per cell
AtCellCentres(d) ==
    /\ \A n \in DOMAIN d.dims : "z_stag" \notin Elems(d.dims[n])
    /\ "W" \in DOMAIN d.dims =>
           /\ d.dims["W"] = D3
           /\ \A i \in DOMAIN d.data["W"] : Len(d.data["W"][i]) = NLev

TimeAscending(d) ==
    \A i \in 1..(Len(d.data["Time"]) - 1) : d.data["Time"][i] < d.data["Time"][i + 1]

C22_EvaluatedOnlyAtWrite ==
    /\ pc # "written" => evaluated = <<>>
    /\ \A i \in DOMAIN evaluated : evaluated[i].stage = "write"

(* ------------------------- the regridder's input ----------------------- *)

\* C23: no step after compute_additional_variables_inplace mutates the
\* dataset it is given: _to_levs, the replacement of wrf_projection and the
\* update of the attributes of the regridded dataset leave the variables,
\* the wrf_projection value and the attributes of ds as they were
C23_InputNotMutated ==
    [][(pc \in {"computed", "regridded"}) =>
          (ds'.dims = ds.dims /\ ds'.data = ds.data
              /\ ds'.coords = ds.coords /\ ds'.attrs = ds.attrs)]_vars

\* the regridded dataset has the projection string and the provenance keys,
\* the dataset it was made from has the CRS object and none of the keys
C23_Witness ==
    /\ pc = "assembled"
    /\ ds_p.data["wrf_projection"] = ToProj4(WrfCrs)
    /\ ds.data["wrf_projection"] = WrfCrs
    /\ ProvenanceKeys \subseteq DOMAIN ds_p.attrs
    /\ ProvenanceKeys \cap DOMAIN ds.attrs = {}
    /\ DOMAIN ds.attrs \subseteq DOMAIN ds_p.attrs

(* ------------------------------ array types ---------------------------- *)

\* C24 as stated: no field compute_additional_variables_inplace adds and no
\* field of the regridded dataset is a Quantity array
C24_AllFieldsPlain ==
    quantified.ds = {} /\ quantified.ds_p = {}

\* C24: the speeds, Ta and RH are stored in ds as plain arrays, while the two
\* directions, which come out of where(..., wdir + Quantity(360, "deg")),
\* are Quantity arrays in ds; _to_levs dequantifies every 2-D and 3-D field,
\* so no field of the regridded dataset, and none that reaches the store
\* write, is a Quantity array
C24_PlainInRegriddedDataset ==
    /\ quantified.ds \cap {"wind_speed_10", "wind_speed", "Ta", "RH"} = {}
    /\ quantified.ds = {"wind_direction_10", "wind_direction"} \cap DOMAIN ds.dims
    /\ quantified.ds_p = {}
    /\ pc \in {"regridded", "assembled", "opened", "described", "written"} =>
           DerivedNames \subseteq DOMAIN ds_p.dims

\* a store written with both directions in it, which were Quantity arrays in
\* the dataset the regridder was given
C24_Witness ==
    /\ pc = "written"
    /\ quantified.ds = {"wind_direction_10", "wind_direction"}
    /\ quantified.ds_p = {}
    /\ {"wind_direction_10", "wind_direction"} \subseteq DOMAIN store[ZarrPath(args)].dims

(* ------------------------------ the viewers ---------------------------- *)

ViewerKinds == {"hlev", "plev", "advanced"}

\* a run of a viewer's main on the store path of the pipeline run
ViewerRun(kind, argv_ok, serve, force_serve, display) ==
    [NoViewer EXCEPT !.kind = kind, !.argv_ok = argv_ok, !.serve = serve,
                     !.force_serve = force_serve, !.display = display, !.pc = "start"]

\* xr.open_zarr(zarr_path): the group's attributes and the decoded arrays
OpenZarr(st) ==
    [dims |-> st.dims, data |-> DecodeCF(st.data), coords |-> st.coords, attrs |-> st.attrs]

\* the dimension names of a dataset
DimsOf(d) == UNION {Elems(d.dims[n]) : n \in DOMAIN d.dims}

\* ds.data_vars
DataVars(d) == DOMAIN d.dims \ d.coords

\* the top of the slice the advanced viewer takes
SliceTop == 300

\* .sel(dim=slice(None, top)) on an ascending index: the levels up to top,
\* top included, of every variable along dim
SelUpTo(d, dim, top) ==
    LET kept == Cardinality({k \in DOMAIN d.data[dim] : d.data[dim][k] <= top})
    IN  [d EXCEPT !.data = [n \in DOMAIN d.data |->
                              IF dim \notin Elems(d.dims[n]) THEN d.data[n]
                              ELSE IF n = dim THEN SubSeq(d.data[n], 1, kept)
                              ELSE [t \in DOMAIN d.data[n] |->
                                       SubSeq(d.data[n][t], 1, kept)]]]

\* load_wrf_data raises: no store at the path, or, in the advanced viewer,
\* a .sel along geopotential_height on a store that has no such dimension
LoadRaises(kind, st) ==
    \/ ~st.exists
    \/ kind = "advanced" /\ "geopotential_height" \notin DimsOf(OpenZarr(st))

\* load_wrf_data(zarr_path) of the three viewers
LoadWrfData(kind, st) ==
    IF kind = "advanced" THEN SelUpTo(OpenZarr(st), "geopotential_height", SliceTop)
    ELSE OpenZarr(st)

\* the level the height-level viewers select at the start
InitialLevel == 100

\* pn.widgets.Select(value=..., options=...)
Select(value, options) == [value |-> value, options |-> options]

\* the 3-D and 2-D variables as the height-level viewers sort them
ViewerVars3d(d) == {v \in DataVars(d) : "geopotential_height" \in Elems(d.dims[v])}

ViewerVars2d(d) == {v \in DataVars(d) : "geopotential_height" \notin Elems(d.dims[v])}

\* the widgets of create_interactive_plots
WidgetsHlev(d) ==
    [z_widget |-> Select(InitialLevel, Elems(d.data["geopotential_height"])),
     var3d_select |-> Select("wind_speed", ViewerVars3d(d)),
     var2d_select |-> Select(CHOOSE v \in ViewerVars2d(d) : TRUE, ViewerVars2d(d))]

\* the widgets of create_advanced_plots
WidgetsAdvanced(d) ==
    [z_widget |-> Select(InitialLevel, Elems(d.data["geopotential_height"])),
     var3d_select |-> Select("wind_speed", ViewerVars3d(d)),
     var2d_select |-> Select(CHOOSE v \in ViewerVars2d(d) : TRUE, ViewerVars2d(d)),
     var_cross_select |-> Select("wind_speed", ViewerVars3d(d)),
     ts_var_select |-> Select("wind_speed", ViewerVars3d(d) \cup ViewerVars2d(d)),
     ts_z_widget |-> Select(InitialLevel, Elems(d.data["geopotential_height"])),
     var1_select |-> Select("wind_speed", ViewerVars3d(d)),
     var2_select |-> Select("Ta", ViewerVars3d(d))]

\* the branch create_pressure_level_plots takes
PlevBranch(d) ==
    IF "pressure" \in DimsOf(d) THEN "pressure"
    ELSE IF "air_pressure" \in DimsOf(d) THEN "air_pressure"
    ELSE IF "geopotential_height" \in DimsOf(d) /\ "air_pressure" \in DataVars(d)
         THEN "geopotential_height"
    ELSE "none"

\* the widgets of create_pressure_level_plots: the middle level and the
\* first 3-D variable
WidgetsPlev(d) ==
    LET dim == PlevBranch(d)
        vars_3d == {v \in DataVars(d) : dim \in Elems(d.dims[v])}
        p_levels == IF dim = "geopotential_height" THEN d.data["air_pressure"][1]
                    ELSE d.data[dim]
    IN  [level_widget |-> Select(p_levels[(Len(p_levels) \div 2) + 1], Elems(p_levels)),
         var3d_select |-> Select(CHOOSE v \in vars_3d : TRUE, vars_3d)]

\* get_crs and the building of the app raise: no level variable to list, no
\* branch for the dataset, or an empty list indexed at 0
BuildRaises(kind, d) ==
    IF kind = "plev"
    THEN PlevBranch(d) = "none"
    ELSE \/ "geopotential_height" \notin DOMAIN d.data
         \/ ViewerVars2d(d) = {}

Widgets(kind, d) ==
    CASE kind = "hlev" -> WidgetsHlev(d)
      [] kind = "advanced" -> WidgetsAdvanced(d)
      [] kind = "plev" -> WidgetsPlev(d)

\* the server started whenever --serve is given
StartsServerWhenAsked(v) == v.serve

\* pn.serve is reached: --serve, and a display or --force-serve
StartsServer(v) == v.serve /\ (v.display \/ v.force_serve)

\* except Exception as e: print(f"Error: {e}"), then the finally clause
Caught(v) == [v EXCEPT !.pc = "done", !.out = @ \o <<"Error", "Done">>]

\* args = parser.parse_args(): a command line the parser rejects ends the
\* process with status 2 before the try statement
ViewParseArgs ==
    /\ viewer.pc = "start"
    /\ viewer' = IF viewer.argv_ok
                 THEN [viewer EXCEPT !.pc = "parsed"]
                 ELSE [viewer EXCEPT !.pc = "exited", !.raised = "SystemExit"]
    /\ UNCHANGED <<disk, args, pc, levs, ds, ds_p, dirs, store, log, exit, other,
                   evaluated, quantified>>

\* ds = load_wrf_data(args.zarr_file)
ViewLoad ==
    /\ viewer.pc = "parsed"
    /\ LET st == store[ZarrPath(args)]
       IN  viewer' = IF LoadRaises(viewer.kind, st) THEN Caught(viewer)
                     ELSE [viewer EXCEPT !.pc = "loaded",
                                         !.ds = LoadWrfData(viewer.kind, st)]
    /\ UNCHANGED <<disk, args, pc, levs, ds, ds_p, dirs, store, log, exit, other,
                   evaluated, quantified>>

\* wrf_crs = get_crs(ds) and app = create_..._plots(...)
ViewBuild ==
    /\ viewer.pc = "loaded"
    /\ viewer' = IF BuildRaises(viewer.kind, viewer.ds) THEN Caught(viewer)
                 ELSE [viewer EXCEPT !.pc = "built", !.built = TRUE,
                                     !.widgets = Widgets(viewer.kind, viewer.ds)]
    /\ UNCHANGED <<disk, args, pc, levs, ds, ds_p, dirs, store, log, exit, other,
                   evaluated, quantified>>

\* the rest of main: without --serve the hint; headless without
\* --force-serve the instructions and return; else pn.serve(app,
\* port=args.web_port, show=not is_headless), which returns, is interrupted
\* from the keyboard or raises; the finally clause prints Done
ViewServe ==
    /\ viewer.pc = "built"
    /\ \/ /\ ~viewer.serve
          /\ viewer' = [viewer EXCEPT !.pc = "done",
                           !.out = @ \o <<"Application created successfully!", "Done">>]
       \/ /\ viewer.serve /\ ~StartsServer(viewer)
          /\ viewer' = [viewer EXCEPT !.pc = "done",
                           !.out = @ \o <<"Detected headless environment.", "Done">>]
       \/ /\ StartsServer(viewer)
          /\ \E end \in {"Server started successfully!", "Server stopped by user",
                          "Error starting web server"} :
                 viewer' = [viewer EXCEPT !.pc = "done", !.served = TRUE,
                                          !.show = viewer.display,
                                          !.out = @ \o <<end, "Done">>]
    /\ UNCHANGED <<disk, args, pc, levs, ds, ds_p, dirs, store, log, exit, other,
                   evaluated, quantified>>

\* the store a pipeline run on these files with this command line writes
WrittenStore(dp) == ZarrSetData(ZarrSetMetadata(ZarrOpen(NoStore), dp), dp)

\* a viewer started on the path of a finished pipeline run, or on a path
\* where no run wrote
InitViewer ==
    \E a \in ArgChoices, there \in BOOLEAN, kind \in ViewerKinds,
       argv_ok \in BOOLEAN, serve \in BOOLEAN, force_serve \in BOOLEAN, display \in BOOLEAN :
        /\ disk = BaseInput
        /\ args = a
        /\ pc = IF there THEN "written" ELSE "start"
        /\ levs = IF there THEN ParseArangeExpr(a.levs).value ELSE <<>>
        /\ ds = IF there
                THEN ComputeAdditionalVariablesInplace(
                         ReadWrfout(BaseInput, [i \in 1..NTime |-> i])).ds
                ELSE NoDs
        /\ ds_p = IF there THEN FinalDataset(BaseInput, a, "2026-01-01T00:00:00") ELSE NoDs
        /\ dirs = IF there THEN {ProcDir(a)} ELSE {}
        /\ store = [p \in StorePaths |->
                       IF there /\ p = ZarrPath(a) THEN WrittenStore(ds_p) ELSE NoStore]
        /\ log = <<>>
        /\ exit = IF there THEN Exited(0, "None", "None") ELSE Running
        /\ other = NoOther
        /\ evaluated = <<>>
        /\ quantified = [ds |-> {}, ds_p |-> {}]
        /\ viewer = ViewerRun(kind, argv_ok, serve, force_serve, display)

NextViewer ==
    \/ ViewParseArgs
    \/ ViewLoad
    \/ ViewBuild
    \/ ViewServe

SpecViewer == InitViewer /\ [][NextViewer]_vars

(* ------------------------------ round trip ----------------------------- *)

\* a height-level viewer has loaded the store of the pipeline run
LoadedBy(kinds) == viewer.kind \in kinds /\ viewer.pc = "loaded"

\* the variable set and the provenance attributes are those written
SameVariablesAndProvenance ==
    /\ DOMAIN viewer.ds.dims = DOMAIN ds_p.dims
    /\ viewer.ds.dims = ds_p.dims
    /\ viewer.ds.coords = ds_p.coords
    /\ \A k \in ProvenanceKeys : viewer.ds.attrs[k] = ds_p.attrs[k]

EndedWithDone ==
    /\ viewer.out # <<>>
    /\ viewer.out[Len(viewer.out)] = "Done"
    /\ viewer.raised = "None"

\* the server is started exactly when the app is built, --serve was given
\* and a display is present or --force-serve was given, and the browser is
\* opened exactly when the server is started with a display
ServedAsAsked ==
    /\ viewer.served <=>
           (viewer.built /\ viewer.serve /\ (viewer.display \/ viewer.force_serve))
    /\ viewer.show <=> (viewer.served /\ viewer.display)

\* C29 as stated: every run of a viewer main that has ended has printed
\* Done last with no error propagated, and has served as asked
C29_DoneOnEveryPath ==
    viewer.pc \in {"done", "exited"} => EndedWithDone /\ ServedAsAsked

\* C29: once the arguments are parsed, a viewer main serves as asked
\* (server started iff built, --serve, and display or --force-serve; browser
\* opened iff a display is present) and ends by printing Done on every
\* path, a load or plotting error and an error of the server included,
\* with no exception propagated; a command line the parser rejects ends the
\* process before that, with nothing printed by main and no Done
C29_DoneOncePastTheParser ==
    /\ viewer.pc = "done" =>
           /\ EndedWithDone
           /\ ServedAsAsked
           /\ viewer.argv_ok
           /\ Cardinality({i \in DOMAIN viewer.out : viewer.out[i] = "Done"}) = 1
           /\ (~viewer.built) => viewer.out = <<"Error", "Done">>
    /\ viewer.pc = "exited" =>
           /\ ~viewer.argv_ok
           /\ viewer.out = <<>>
           /\ viewer.raised = "SystemExit"
           /\ ~viewer.served
    /\ viewer.pc \in {"start", "parsed", "loaded", "built"} =>
           ~viewer.served /\ viewer.out = <<>>

\* the pressure-level viewer, headless with --force-serve, has started the
\* server without opening a browser and has ended with Done
C29_Witness ==
    /\ viewer.pc = "done"
    /\ viewer.kind = "plev"
    /\ viewer.serve /\ viewer.force_serve /\ ~viewer.display
    /\ viewer.served
    /\ ~viewer.show
    /\ viewer.out = <<"Error starting web server", "Done">>

(* ---------------------------- viewer widgets --------------------------- *)

\* C30: a height-level viewer built on a store written with
\* interp_var=geopotential_height starts with valid selections: the value of
\* every widget, the initial level 100 and the initial variables
\* wind_speed and Ta among them, is one of the widget's options
C30_InitialSelectionsValid ==
    (/\ viewer.kind \in {"hlev", "advanced"}
     /\ viewer.pc = "built"
     /\ args.interp_var = "geopotential_height") =>
        \A w \in DOMAIN viewer.widgets :
            viewer.widgets[w].value \in viewer.widgets[w].options

(* ------------------------ order of the derived fields ------------------ *)

\* the derived fields in the order of the claim
DerivedOrder ==
    <<"wind_speed_10", "wind_speed", "wind_direction_10", "wind_direction", "Ta", "RH">>

\* the inputs each of them needs in the files
DerivedNeeds ==
    <<{"U10", "V10"}, {"U", "V"}, {"U10", "V10"}, {"U", "V"},
      {"air_pressure", "air_potential_temperature"}, {"air_pressure", "QVAPOR"}>>

\* the first derived field whose inputs the files lack, 7 if none
FirstFailing ==
    LET failing == {i \in 1..6 : ~(DerivedNeeds[i] \subseteq DOMAIN disk.dims)}
    IN  IF failing = {} THEN 7 ELSE CHOOSE i \in failing : \A j \in failing : i <= j

\* C26: compute_additional_variables_inplace adds wind_speed_10, wind_speed,
\* wind_direction_10, wind_direction, Ta, RH in this order, RH from the Ta
\* it has just stored; when an input is missing it raises, the fields before
\* the failing assignment are in the caller's dataset and the later ones
\* are not
C26_FixedOrderNotAtomic ==
    /\ (pc = "failed" /\ exit.stage = "compute") =>
           /\ FirstFailing <= 6
           /\ \A j \in 1..6 : DerivedOrder[j] \in DOMAIN ds.dims <=> j < FirstFailing
           /\ \A j \in 1..6 : DerivedOrder[j] \in DOMAIN ds.data <=> j < FirstFailing
    /\ AfterCompute =>
           /\ FirstFailing = 7
           /\ \A j \in 1..6 : DerivedOrder[j] \in DOMAIN ds.data
           /\ \A t \in DOMAIN ds.data["RH"] : \A k \in DOMAIN ds.data["RH"][t] :
                  ds.data["RH"][t][k] =
                      RelativeHumidityFromSpecificHumidity(ds.data["air_pressure"][t][k],
                                                           ds.data["Ta"][t][k],
                                                           ds.data["QVAPOR"][t][k])
    /\ pc = "loaded" => DOMAIN ds.dims \cap DerivedNames = {}

\* air_potential_temperature is absent: the call has raised at Ta, with the
\* two speeds and the two directions stored and neither Ta nor RH
C26_Witness ==
    /\ pc = "failed"
    /\ exit = Exited(1, "KeyError", "compute")
    /\ "air_potential_temperature" \notin DOMAIN ds.dims
    /\ {"wind_speed_10", "wind_speed", "wind_direction_10", "wind_direction"}
           \subseteq DOMAIN ds.dims
    /\ {"Ta", "RH"} \cap DOMAIN ds.dims = {}

(* ----------------------------- classification -------------------------- *)

\* the signatures of T2 and of wind_east differ
SignaturesDiffer == ds.dims["T2"] # ds.dims["wind_east"]

\* the input variables, coordinates included, with neither signature
NeitherNames == DOMAIN ds.dims \ (SurfaceNames \cup LevelNames)

\* C27 as stated: with different signatures no variable is 2-D and 3-D, and
\* every variable with neither signature, other than wrf_projection, is
\* absent from the output
C27_NeitherIsAbsent ==
    (AfterRegrid /\ SignaturesDiffer) =>
        /\ SurfaceNames \cap LevelNames = {}
        /\ \A v \in NeitherNames \ {"wrf_projection"} : v \notin DOMAIN ds_p.dims

\* C27: a variable is 2-D or 3-D by equality of its dims with those of T2 or
\* of wind_east: the 2-D ones are in the output on their dims, the 3-D ones
\* on the target levels; with different signatures no variable is both;
\* a data variable with neither signature, other than wrf_projection, is
\* absent from the output, while a coordinate with neither signature is in
\* the output, still as a coordinate, when a 2-D or regridded field carries
\* it (XLAT, Time), and absent otherwise (z)
C27_ClassifiedByEquality ==
    (AfterRegrid /\ SignaturesDiffer) =>
        /\ SurfaceNames \cap LevelNames = {}
        /\ \A v \in SurfaceNames :
               v \in DOMAIN ds_p.dims /\ ds_p.dims[v] = ds.dims[v]
        /\ \A v \in LevelNames :
               /\ v \in DOMAIN ds_p.dims
               /\ args.interp_var \in Elems(ds_p.dims[v])
               /\ "z" \notin Elems(ds_p.dims[v])
        /\ \A v \in NeitherNames \ ({"wrf_projection"} \cup ds.coords) :
               v \notin DOMAIN ds_p.dims
        /\ \A v \in NeitherNames \cap ds.coords :
               IF Elems(ds.dims[v]) \subseteq {"Time", "y", "x"}
               THEN v \in ds_p.coords /\ ds_p.dims[v] = ds.dims[v]
                       /\ ds_p.data[v] = ds.data[v]
               ELSE v \notin DOMAIN ds_p.dims

\* XLAT and Time have neither signature and are in the pressure-level output;
\* the soil field and the native level coordinate are not
C27_Witness ==
    /\ AfterRegrid
    /\ SignaturesDiffer
    /\ args.interp_var = "air_pressure"
    /\ {"XLAT", "Time", "TSLB", "z"} \subseteq NeitherNames
    /\ {"XLAT", "Time"} \subseteq DOMAIN ds_p.dims
    /\ {"TSLB", "z"} \cap DOMAIN ds_p.dims = {}

(* ------------------------ the older script preproces.py ---------------- *)

\* read_wrfout of preproces.py: the files concatenated along Time and sorted;
\* chunks is None, so .xwrf.destagger() is not called
OldReadWrfout(dk, paths) == SortByTime(Concat(dk, paths))

\* h_target = np.arange(0, 1000, 10)
HTarget == NpArange(0, 1000, 10)

\* v2d_dict = {}; for v2d in vars_2d: v2d_dict = ds[v2d].metpy.dequantify():
\* the name is rebound, so after the loop it is the DataArray of the last 2-D
\* variable, or still the empty dict when there is none
V2dDictIsDataArray(d) == Vars2d(d) # {}

\* the name whose lookup raises before the update: ds["T2"], ds["wind_east"],
\* ds.air_pressure, ds.geopotential_height; ds.wrf_projection is read after it
OldMissing(d) == FirstMissing(d, <<"T2", "wind_east", "air_pressure", "geopotential_height">>)

\* the config read, proc_dir made, the files listed and read
OldLoad ==
    /\ pc = "start"
    /\ dirs' = dirs \cup {ProcDir(args)}
    /\ IF Glob(disk, args) = {}
       THEN /\ pc' = "failed"
            /\ exit' = Exited(1, "ValueError", "load")
            /\ UNCHANGED ds
       ELSE /\ \E fpaths \in Perms(Glob(disk, args)) : ds' = OldReadWrfout(disk, fpaths)
            /\ pc' = "loaded"
            /\ UNCHANGED exit
    /\ UNCHANGED <<disk, args, levs, ds_p, store, log, other, evaluated, quantified, viewer>>

\* the six assignments, the two directions left as Quantity arrays
OldCompute ==
    /\ pc = "loaded"
    /\ LET r == ComputeAdditionalVariablesInplace(ds)
       IN  /\ ds' = r.ds
           /\ pc' = IF r.ok THEN "computed" ELSE "failed"
           /\ exit' = IF r.ok THEN exit ELSE Exited(1, "KeyError", "compute")
           /\ quantified' = [quantified EXCEPT
                                !.ds = {"wind_direction_10", "wind_direction"}
                                           \cap DOMAIN r.ds.dims]
    /\ UNCHANGED <<disk, args, levs, ds_p, dirs, store, log, other, evaluated, viewer>>

\* the regridding loop, the loop over vars_2d and v3d_dict.update(v2d_dict):
\* update() of a dict with a DataArray takes it as a sequence of key/value
\* pairs and raises, ValueError when an element has not two items and
\* TypeError (unhashable key) when it has; xr.Dataset(v3d_dict) is reached
\* only when no variable is 2-D
OldAssemble ==
    /\ pc = "computed"
    /\ levs' = HTarget
    /\ LET missing == OldMissing(ds)
       IN  IF missing # ""
           THEN /\ pc' = "failed"
                /\ exit' = Exited(1, IF missing \in {"T2", "wind_east"} THEN "KeyError"
                                     ELSE "AttributeError", "regrid")
                /\ UNCHANGED ds_p
           ELSE IF V2dDictIsDataArray(ds)
           THEN /\ pc' = "failed"
                /\ \E exc \in {"ValueError", "TypeError"} :
                       exit' = Exited(1, exc, "assemble")
                /\ UNCHANGED ds_p
           ELSE /\ pc' = "regridded"
                /\ ds_p' = ToLevs(ds, HTarget, "geopotential_height")
                /\ UNCHANGED exit
    /\ UNCHANGED <<disk, args, ds, dirs, store, log, other, evaluated, quantified, viewer>>

InitOldScript ==
    \E dk \in Inputs \cup InputsMissing \cup InputsRestart :
        Start(dk, BaseArgs(Lev100, "geopotential_height"), NoOther)

NextOldScript ==
    \/ OldLoad
    \/ OldCompute
    \/ OldAssemble

SpecOldScript == InitOldScript /\ [][NextOldScript]_vars

\* C28: for an input on which _to_levs returns a dataset, the older script
\* assembles the same dataset for its height levels: once it is past its
\* update of v3d_dict it has not failed, and its output holds every 2-D
\* variable and every regridded 3-D variable as _to_levs returns them
C28_OldScriptAssemblesSame ==
    (/\ pc \notin {"start", "loaded", "computed"}
     /\ ToLevsMissing(ds, "geopotential_height") = ""
     /\ DerivedNames \subseteq DOMAIN ds.dims) =>
        /\ pc # "failed"
        /\ Vars2d(ds) \cup Vars3d(ds) \subseteq DOMAIN ds_p.dims
        /\ ds_p = ToLevs(ds, levs, "geopotential_height")

====
